---- MODULE Spec2Model ----
(***************************************************************************)
(* A model of boreal, a YARA-compatible rule engine.                       *)
(*                                                                         *)
(* Part I   : the Aho-Corasick pass of VariableSet::matches together with  *)
(*            the per-variable confirmation of compiler/variable.rs        *)
(*            (specification SpecAC), and the lazy cursor of a variable,   *)
(*            VariableEvaluation (specification SpecEval).                 *)
(* Part II  : the rule compiler (Compiler::add_module, add_rules_str,      *)
(*            add_file) and Scanner::scan_mem (specification SpecRules).   *)
(*                                                                         *)
(* Offsets are 0-based as in the Rust code; TLA+ sequences are 1-based, so *)
(* byte i of mem is mem[i + 1].  A Range<usize> is a record [start, end].  *)
(* An Option<T> is the empty sequence (None) or a one-element sequence.    *)
(***************************************************************************)
EXTENDS Integers, Sequences, FiniteSets, TLC

(***************************************************************************)
(* Bounds of the model.                                                    *)
(***************************************************************************)
\* Longest scanned input.
MaxMemLen == 5

\* Number of rule sources added to a compiler.
MaxAdds == 3

(***************************************************************************)
(* Bytes.                                                                  *)
(***************************************************************************)
\* The bytes the inputs are drawn from: NUL, '-', 'A', 'a'.
Alphabet == {0, 45, 65, 97}

None == << >>

Some(x) == << x >>

Range(s, e) == [start |-> s, end |-> e]

\* mem[a..b]
Slice(mem, a, b) == SubSeq(mem, a + 1, b)

\* mem[i]
At(mem, i) == mem[i + 1]

Min(a, b) == IF a < b THEN a ELSE b

RECURSIVE Xor(_, _)
\* a ^ b on u8
Xor(a, b) ==
    IF a = 0 THEN b
    ELSE IF b = 0 THEN a
    ELSE (((a % 2) + (b % 2)) % 2) + (2 * Xor(a \div 2, b \div 2))

\* u8::to_ascii_lowercase, the folding behind eq_ignore_ascii_case and the
\* ascii_case_insensitive automaton.
ToAsciiLower(c) == IF c >= 65 /\ c <= 90 THEN c + 32 ELSE c

eq_ignore_ascii_case(x, y) ==
    /\ Len(x) = Len(y)
    /\ \A i \in 1..Len(x) : ToAsciiLower(x[i]) = ToAsciiLower(y[i])

is_ascii_alnum(c) ==
    \/ c >= 48 /\ c <= 57
    \/ c >= 65 /\ c <= 90
    \/ c >= 97 /\ c <= 122

\* A word byte of the regex crate's ASCII \b: [0-9A-Za-z_].
IsWordByte(c) == is_ascii_alnum(c) \/ c = 95

(***************************************************************************)
(* Regular expressions.  The validators and raw matchers of a variable are *)
(* regex::bytes::Regex objects (unicode(false)).  A regex is a sequence of *)
(* items matched by backtracking in preference order (the crate's          *)
(* leftmost-first semantics):                                              *)
(*   "byte" b   the byte b (ASCII case folded when ci)                     *)
(*   "any"      .     (dot_all: any byte)                                  *)
(*   "optany"   .?    greedy                                               *)
(*   "star" b   b*    greedy                                               *)
(*   "wb"       \b    ASCII word boundary                                  *)
(*   "bol"      ^     "eol"  $                                             *)
(***************************************************************************)
Item(t, b) == [t |-> t, b |-> b]

Regex(items, ci) == [items |-> items, ci |-> ci]

ByteMatches(re, c, b) == IF re.ci THEN ToAsciiLower(c) = ToAsciiLower(b) ELSE c = b

IsWordBoundary(s, p) ==
    LET before == p > 0 /\ IsWordByte(At(s, p - 1))
        after == p < Len(s) /\ IsWordByte(At(s, p))
    IN before # after

RECURSIVE MatchFrom(_, _, _, _)
\* The end of the preferred match of items k.. of re at position p of s, or -1.
MatchFrom(re, k, s, p) ==
    IF k > Len(re.items) THEN p
    ELSE LET it == re.items[k]
             step == IF p < Len(s) THEN MatchFrom(re, k + 1, s, p + 1) ELSE -1
             skip == MatchFrom(re, k + 1, s, p)
         IN CASE it.t = "byte" ->
                    IF p < Len(s) /\ ByteMatches(re, At(s, p), it.b) THEN step ELSE -1
              [] it.t = "any" -> step
              [] it.t = "optany" -> IF step # -1 THEN step ELSE skip
              [] it.t = "star" ->
                    LET more == IF p < Len(s) /\ ByteMatches(re, At(s, p), it.b)
                                THEN MatchFrom(re, k, s, p + 1)
                                ELSE -1
                    IN IF more # -1 THEN more ELSE skip
              [] it.t = "wb" -> IF IsWordBoundary(s, p) THEN skip ELSE -1
              [] it.t = "bol" -> IF p = 0 THEN skip ELSE -1
              [] it.t = "eol" -> IF p = Len(s) THEN skip ELSE -1

\* The match at position p.
MatchAt(re, s, p) == Some(Range(p, MatchFrom(re, 1, s, p)))

\* The match at the least of the positions a match starts at.
Leftmost(re, s, starts) ==
    IF starts = {} THEN None
    ELSE MatchAt(re, s, CHOOSE q \in starts : \A r \in starts : q <= r)

\* Regex::find_at(s, offset): the leftmost match starting at or after offset.
RegexFindAt(re, s, offset) ==
    Leftmost(re, s, {p \in offset..Len(s) : MatchFrom(re, 1, s, p) # -1})

\* Regex::find(s)
RegexFind(re, s) == RegexFindAt(re, s, 0)

(***************************************************************************)
(* Part I.  Compiled variables (boreal/src/compiler/variable.rs).          *)
(***************************************************************************)
\* VariableFlags, a set of modifier bits.
Flags(ascii, wide, nocase, fullword, xor, private) ==
    [ASCII |-> ascii, WIDE |-> wide, NOCASE |-> nocase, FULLWORD |-> fullword,
     XOR |-> xor, PRIVATE |-> private]

\* VariableModifiers: the flags and the xor range.
Modifiers(flags, from, to) == [flags |-> flags, xor_range |-> <<from, to>>]

\* enum MatcherType
MatcherLiterals == [kind |-> "Literals", left_validator |-> None, right_validator |-> None, raw |-> None]

MatcherAtomized(left, right) ==
    [kind |-> "Atomized", left_validator |-> left, right_validator |-> right, raw |-> None]

MatcherRaw(re) == [kind |-> "Raw", left_validator |-> None, right_validator |-> None, raw |-> Some(re)]

\* struct Variable
Variable(name, literals, flags, matcher_type, non_wide_regex) ==
    [name |-> name, is_private |-> flags.PRIVATE, literals |-> literals, flags |-> flags,
     matcher_type |-> matcher_type, non_wide_regex |-> non_wide_regex]

RECURSIVE string_to_wide(_)
\* A widening that leaves a string that is wide already as it is.
string_to_wide_once(s) ==
    IF s # << >> /\ Len(s) % 2 = 0 /\ \A i \in 1..(Len(s) \div 2) : s[2 * i] = 0
    THEN s
    ELSE [i \in 1..(2 * Len(s)) |-> IF i % 2 = 1 THEN s[(i + 1) \div 2] ELSE 0]

\* Convert an ascii string to a wide string
string_to_wide(s) == IF s = << >> THEN << >> ELSE << Head(s), 0 >> \o string_to_wide(Tail(s))

RECURSIVE XorLiteral(_, _)
\* lit.iter().map(|c| c ^ xor_byte).collect()
XorLiteral(lit, xor_byte) ==
    IF lit = << >> THEN << >>
    ELSE << Xor(Head(lit), xor_byte) >> \o XorLiteral(Tail(lit), xor_byte)

RECURSIVE XorRange(_, _, _)
\* for xor_byte in from..=to { new_literals.push(lit ^ xor_byte) }
XorRange(lit, from, to) ==
    IF from > to THEN << >>
    ELSE << XorLiteral(lit, from) >> \o XorRange(lit, from + 1, to)

RECURSIVE XorAll(_, _, _)
\* for lit in literals { for xor_byte in xor_range { .. } }
XorAll(literals, from, to) ==
    IF literals = << >> THEN << >>
    ELSE XorRange(Head(literals), from, to) \o XorAll(Tail(literals), from, to)

\* compile_bytes: the literals of a plain string (the base64 modifiers are
\* never set in the inputs drawn here).
compile_bytes(value, modifiers) ==
    LET literals == IF modifiers.flags.WIDE
                    THEN IF modifiers.flags.ASCII
                         THEN << string_to_wide(value), value >>
                         ELSE << string_to_wide(value) >>
                    ELSE << value >>
    IN IF modifiers.flags.XOR
       THEN XorAll(literals, modifiers.xor_range[1], modifiers.xor_range[2])
       ELSE literals

\* compile_variable for VariableDeclarationValue::Bytes
compile_variable(name, value, modifiers) ==
    LET flags == IF ~modifiers.flags.WIDE
                 THEN [modifiers.flags EXCEPT !.ASCII = TRUE]
                 ELSE modifiers.flags
        mods == [modifiers EXCEPT !.flags = flags]
    IN Variable(name, compile_bytes(value, mods), flags, MatcherLiterals, None)

\* Is a match a wide string or an ascii one
is_match_wide(mat, mem) ==
    IF (mat.end - mat.start) % 2 # 0 THEN FALSE
    ELSE IF mat.end = mat.start THEN TRUE
    ELSE ~(\E i \in (mat.start + 1)..(mat.end - 1) :
              (i - (mat.start + 1)) % 2 = 0 /\ At(mem, i) # 0)

\* Check the match respects a possible fullword modifier for the variable.
check_fullword(mem, mat, flags) ==
    LET match_is_wide == flags.WIDE /\ is_match_wide(mat, mem)
    IN IF /\ match_is_wide
          /\ \/ mat.start > 1 /\ At(mem, mat.start - 1) = 0
                /\ is_ascii_alnum(At(mem, mat.start - 2))
             \/ mat.end + 1 < Len(mem) /\ is_ascii_alnum(At(mem, mat.end))
                /\ At(mem, mat.end + 1) = 0
       THEN FALSE
       ELSE IF /\ flags.ASCII /\ ~match_is_wide
               /\ \/ mat.start > 0 /\ is_ascii_alnum(At(mem, mat.start - 1))
                  \/ mat.end < Len(mem) /\ is_ascii_alnum(At(mem, mat.end))
       THEN FALSE
       ELSE TRUE

RECURSIVE unwide(_)
\* chunks_exact(2), stopping at the first chunk whose second byte is not NUL
unwide(mem) ==
    IF Len(mem) < 2 \/ mem[2] # 0 THEN << >>
    ELSE << mem[1] >> \o unwide(SubSeq(mem, 3, Len(mem)))

\* Bytes kept after the match when un-widening.
WideWindow == 500

\* apply_wide_word_boundaries: the match of the non wide regex gives the end.
WidenedEnd(mat, expected_start, m) ==
    IF m # None /\ m[1].start = expected_start
    THEN Some(Range(mat.start, mat.start + (2 * (m[1].end - m[1].start))))
    ELSE None

\* apply_wide_word_boundaries, from the start of the un-widened bytes.
WideBoundariesFrom(mat, mem, regex, start) ==
    WidenedEnd(mat, IF start < mat.start THEN 1 ELSE 0,
               RegexFind(regex,
                         unwide(Slice(mem, start, Min(Len(mem), mat.end + WideWindow)))))

\* Check the match respects the word boundaries inside the variable.
apply_wide_word_boundaries(mat, mem, regex) ==
    IF ~is_match_wide(mat, mem) THEN Some(mat)
    ELSE WideBoundariesFrom(mat, mem, regex,
                            IF mat.start >= 2 /\ At(mem, mat.start - 1) = 0
                            THEN mat.start - 2
                            ELSE mat.start)

validate_and_update_match(var, mem, mat) ==
    IF var.flags.FULLWORD /\ ~check_fullword(mem, mat, var.flags) THEN None
    ELSE IF var.non_wide_regex # None
         THEN apply_wide_word_boundaries(mat, mem, var.non_wide_regex[1])
         ELSE Some(mat)

\* A confirmation that compares without regard to ASCII case whatever the
\* flags of the variable.
confirm_ac_literal_nocase(var, mem, mat, literal_index) ==
    eq_ignore_ascii_case(var.literals[literal_index + 1], Slice(mem, mat.start, mat.end))

\* Confirm that an AC match is a match on the given literal.
confirm_ac_literal(var, mem, mat, literal_index) ==
    LET literal == var.literals[literal_index + 1]
    IN IF var.flags.NOCASE
       THEN eq_ignore_ascii_case(literal, Slice(mem, mat.start, mat.end))
       ELSE literal = Slice(mem, mat.start, mat.end)

(***************************************************************************)
(* The variable set (boreal/src/variable_set.rs).                          *)
(***************************************************************************)
\* Length of the slice of a literal registered in the automaton.
AtomLen == 4

IsCommonByte(b) == b = 0 \/ b = 32 \/ (b >= 65 /\ b <= 90) \/ (b >= 97 /\ b <= 122)

\* atom_rank: more distinct bytes and fewer common bytes rank higher.
atom_rank(s) ==
    (2 * Cardinality({s[i] : i \in 1..Len(s)}))
        + Cardinality({i \in 1..Len(s) : ~IsCommonByte(s[i])})

\* The best 4-byte window of a literal, as (left offset, right offset);
\* Iterator::max_by_key keeps the last of several maximal windows.
pick_best_atom_in_literal(lit) ==
    IF Len(lit) <= AtomLen THEN <<0, 0>>
    ELSE LET windows == 0..(Len(lit) - AtomLen)
             rank(i) == atom_rank(Slice(lit, i, i + AtomLen))
             best == CHOOSE i \in windows :
                        /\ \A j \in windows : rank(j) <= rank(i)
                        /\ \A j \in windows : rank(j) = rank(i) => j <= i
         IN <<best, Len(lit) - best - AtomLen>>

LiteralInfo(variable_index, literal_index, slice_offset) ==
    [variable_index |-> variable_index, literal_index |-> literal_index,
     slice_offset |-> slice_offset]

RECURSIVE LiteralInfosOf(_, _, _)
\* for (literal_index, lit) in var.literals.iter().enumerate()
LiteralInfosOf(var, variable_index, literal_index) ==
    IF literal_index >= Len(var.literals) THEN << >>
    ELSE << LiteralInfo(variable_index, literal_index,
                        pick_best_atom_in_literal(var.literals[literal_index + 1])) >>
         \o LiteralInfosOf(var, variable_index, literal_index + 1)

RECURSIVE BuildLiteralInfo(_, _)
\* VariableSet::new: aho_index_to_literal_info
BuildLiteralInfo(vars, variable_index) ==
    IF variable_index >= Len(vars) THEN << >>
    ELSE LiteralInfosOf(vars[variable_index + 1], variable_index, 0)
         \o BuildLiteralInfo(vars, variable_index + 1)

\* VariableSet::new: non_handled_var_indexes
NonHandledVarIndexes(vars) == {i \in 0..(Len(vars) - 1) : vars[i + 1].literals = << >>}

RECURSIVE AhoPatterns(_, _, _)
\* VariableSet::new: the slice of each literal given to the automaton.
AhoPatterns(vars, infos, p) ==
    IF p > Len(infos) THEN << >>
    ELSE LET lit == vars[infos[p].variable_index + 1].literals[infos[p].literal_index + 1]
         IN << Slice(lit, infos[p].slice_offset[1], Len(lit) - infos[p].slice_offset[2]) >>
            \o AhoPatterns(vars, infos, p + 1)

AcMatch(pattern, s, e) == [pattern |-> pattern, start |-> s, end |-> e]

RECURSIVE HitsOfLen(_, _, _, _, _)
\* The patterns of length n, from pattern index p on, that end at e.
HitsOfLen(lits, mem, e, n, p) ==
    IF p > Len(lits) THEN << >>
    ELSE (IF Len(lits[p]) = n /\ eq_ignore_ascii_case(lits[p], Slice(mem, e - n, e))
          THEN << AcMatch(p - 1, e - n, e) >>
          ELSE << >>)
         \o HitsOfLen(lits, mem, e, n, p + 1)

RECURSIVE HitsEndingAt(_, _, _, _)
\* The patterns that end at e: the longest first, then by pattern index.
HitsEndingAt(lits, mem, e, n) ==
    IF n < 1 THEN << >>
    ELSE HitsOfLen(lits, mem, e, n, 1) \o HitsEndingAt(lits, mem, e, n - 1)

RECURSIVE HitsFrom(_, _, _)
HitsFrom(lits, mem, e) ==
    IF e > Len(mem) THEN << >>
    ELSE HitsEndingAt(lits, mem, e, Min(e, AtomLen)) \o HitsFrom(lits, mem, e + 1)

\* AhoCorasick::find_overlapping_iter of the ascii_case_insensitive automaton:
\* every occurrence of every pattern, in the order of their end offsets.
find_overlapping_iter(lits, mem) == HitsFrom(lits, mem, 1)

\* enum AcResult
AcNotFound == [kind |-> "NotFound", v |-> << >>]

AcUnknown == [kind |-> "Unknown", v |-> << >>]

AcMatches(v) == [kind |-> "Matches", v |-> v]

\* enum AcMatchStatus; "Panic" stands for the slice-index panic of
\* &mem[start_position..mat.end] when start_position > mat.end.
StatusMultiple(v) == [kind |-> "Multiple", v |-> v]

StatusSingle(m) == [kind |-> "Single", v |-> << m >>]

StatusNone == [kind |-> "None", v |-> << >>]

StatusUnknown == [kind |-> "Unknown", v |-> << >>]

StatusPanic == [kind |-> "Panic", v |-> << >>]

\* A left validation that stops at the first match of the validator.
LeftValidatorFirst(var, validator, mem, mat, end, start_position) ==
    IF start_position > mat.end THEN StatusPanic
    ELSE LET found == RegexFind(validator, Slice(mem, start_position, mat.end))
         IN IF found = None THEN StatusMultiple(<< >>)
            ELSE StatusMultiple(validate_and_update_match(
                                    var, mem, Range(found[1].start + start_position, end)))

RECURSIVE LeftValidatorLoop(_, _, _, _, _, _)
\* while let Some(m) = validator.find(&mem[start_position..mat.end]) { .. }
LeftValidatorLoop(var, validator, mem, mat, end, start_position) ==
    IF start_position > mat.end THEN StatusPanic
    ELSE LET found == RegexFind(validator, Slice(mem, start_position, mat.end))
         IN IF found = None THEN StatusMultiple(<< >>)
            ELSE LET m == Range(found[1].start + start_position, end)
                     checked == validate_and_update_match(var, mem, m)
                     rest == LeftValidatorLoop(var, validator, mem, mat, end, m.start + 1)
                 IN IF rest.kind = "Panic" THEN StatusPanic
                    ELSE StatusMultiple(checked \o rest.v)

SingleOrNone(checked) == IF checked = None THEN StatusNone ELSE StatusSingle(checked[1])

\* Variable::process_ac_match
process_ac_match(var, mem, mat, start_position) ==
    CASE var.matcher_type.kind = "Literals" ->
            SingleOrNone(validate_and_update_match(var, mem, mat))
      [] var.matcher_type.kind = "Atomized" ->
            LET right == var.matcher_type.right_validator
                left == var.matcher_type.left_validator
                found == RegexFind(right[1], Slice(mem, mat.start, Len(mem)))
                end == IF right = None THEN mat.end ELSE mat.start + found[1].end
            IN IF right # None /\ found = None THEN StatusNone
               ELSE IF left = None
                    THEN SingleOrNone(validate_and_update_match(var, mem, Range(mat.start, end)))
                    ELSE LeftValidatorLoop(var, left[1], mem, mat, end, start_position)
      [] var.matcher_type.kind = "Raw" -> StatusUnknown

(***************************************************************************)
(* The lazy cursor of a variable (boreal/src/evaluator/variable.rs).       *)
(* A VariableEvaluation is a record [var, matches, next_offset].           *)
(***************************************************************************)
\* VariableEvaluation::new
VariableEvaluation(var) == [var |-> var, matches |-> << >>, next_offset |-> Some(0)]

RECURSIVE find_next_match_at(_, _, _)
RECURSIVE CheckFound(_, _, _)
RECURSIVE KeepOrMoveOn(_, _, _, _)
\* Run the variable matcher at the given offset until a match is found.
find_next_match_at(var, memory, offset) ==
    IF offset >= Len(memory) THEN None
    ELSE CheckFound(var, memory, RegexFindAt(var.matcher_type.raw[1], memory, offset))

\* find_next_match_at: `.map(|m| m.range())?`, then the wide word boundaries.
CheckFound(var, memory, found) ==
    IF found = None THEN None
    ELSE KeepOrMoveOn(var, memory, found[1],
                      IF var.non_wide_regex = None THEN found
                      ELSE apply_wide_word_boundaries(found[1], memory, var.non_wide_regex[1]))

\* find_next_match_at: a match the checks reject moves the search one byte on.
KeepOrMoveOn(var, memory, mat, widened) ==
    IF \/ widened = None
       \/ var.flags.FULLWORD /\ ~check_fullword(memory, widened[1], var.flags)
    THEN find_next_match_at(var, memory, mat.start + 1)
    ELSE widened

\* A cursor that goes on after the end of the match it saved.
SaveMatchPastEnd(ev, memory, mat) ==
    IF mat = None
    THEN [ev |-> [ev EXCEPT !.next_offset = None], mat |-> None]
    ELSE [ev |-> [ev EXCEPT !.matches = Append(@, mat[1]),
                            !.next_offset = IF mat[1].end + 1 < Len(memory)
                                            THEN Some(mat[1].end + 1)
                                            ELSE None],
          mat |-> mat]

\* A cursor that goes on two bytes after the start of the match it saved.
SaveMatchSkippingByte(ev, memory, mat) ==
    IF mat = None
    THEN [ev |-> [ev EXCEPT !.next_offset = None], mat |-> None]
    ELSE [ev |-> [ev EXCEPT !.matches = Append(@, mat[1]),
                            !.next_offset = IF mat[1].start + 2 < Len(memory)
                                            THEN Some(mat[1].start + 2)
                                            ELSE None],
          mat |-> mat]

\* get_next_match: save the match and the next offset.
SaveMatch(ev, memory, mat) ==
    IF mat = None
    THEN [ev |-> [ev EXCEPT !.next_offset = None], mat |-> None]
    ELSE [ev |-> [ev EXCEPT !.matches = Append(@, mat[1]),
                            !.next_offset = IF mat[1].start + 1 < Len(memory)
                                            THEN Some(mat[1].start + 1)
                                            ELSE None],
          mat |-> mat]

\* Find the next match and save it: the new cursor and the match.
get_next_match(ev, memory) ==
    IF ev.next_offset = None THEN [ev |-> ev, mat |-> None]
    ELSE SaveMatch(ev, memory, find_next_match_at(ev.var, memory, ev.next_offset[1]))

\* The outcome of a query: the cursor it leaves and the value it returns.
Outcome(ev, value) == [ev |-> ev, value |-> value]

\* find: `.or_else(|| self.get_next_match(mem))`
FindNext(r) == Outcome(r.ev, r.mat)

\* A find that looks for one more match when it already holds one.
ev_find_scanning_on(ev, memory) ==
    IF ev.matches # << >> THEN Outcome(get_next_match(ev, memory).ev, Some(ev.matches[1]))
    ELSE FindNext(get_next_match(ev, memory))

\* VariableEvaluation::find
ev_find(ev, memory) ==
    IF ev.matches # << >> THEN Outcome(ev, Some(ev.matches[1]))
    ELSE FindNext(get_next_match(ev, memory))

RECURSIVE ev_find_match_occurence(_, _, _)
RECURSIVE OccurenceNext(_, _, _)
\* VariableEvaluation::find_match_occurence
ev_find_match_occurence(ev, memory, occurence_number) ==
    IF Len(ev.matches) <= occurence_number
    THEN OccurenceNext(get_next_match(ev, memory), memory, occurence_number)
    ELSE Outcome(ev, Some(ev.matches[occurence_number + 1]))

\* find_match_occurence: `let _r = self.get_next_match(mem)?;`
OccurenceNext(r, memory, occurence_number) ==
    IF r.mat = None THEN Outcome(r.ev, None)
    ELSE ev_find_match_occurence(r.ev, memory, occurence_number)

RECURSIVE ev_count_matches(_, _)
RECURSIVE CountAll(_, _)
\* VariableEvaluation::count_matches
ev_count_matches(ev, memory) == CountAll(get_next_match(ev, memory), memory)

\* count_matches: loop { if self.get_next_match(mem).is_none() { break; } }
CountAll(r, memory) ==
    IF r.mat = None THEN Outcome(r.ev, Len(r.ev.matches))
    ELSE ev_count_matches(r.ev, memory)

RECURSIVE CountStored(_, _, _, _, _)
\* for mat in &self.matches { .. } of count_matches_in; done tells an early return.
CountStored(stored, i, from, to, count) ==
    IF i > Len(stored) THEN [count |-> count, done |-> FALSE]
    ELSE IF stored[i].start > to THEN [count |-> count, done |-> TRUE]
    ELSE CountStored(stored, i + 1, from, to,
                     IF stored[i].start >= from THEN count + 1 ELSE count)

RECURSIVE CountNext(_, _, _, _, _)
RECURSIVE CountNextMatch(_, _, _, _, _)
\* while let Some(mat) = self.get_next_match(mem) { .. } of count_matches_in
CountNext(ev, memory, from, to, count) ==
    CountNextMatch(get_next_match(ev, memory), memory, from, to, count)

CountNextMatch(r, memory, from, to, count) ==
    IF r.mat = None THEN Outcome(r.ev, count)
    ELSE IF r.mat[1].start > to THEN Outcome(r.ev, count)
    ELSE CountNext(r.ev, memory, from, to,
                   IF r.mat[1].start >= from THEN count + 1 ELSE count)

\* count_matches_in: after the stored matches, the matches yet to find.
CountAfterStored(ev, memory, from, to, stored) ==
    IF stored.done THEN Outcome(ev, stored.count)
    ELSE CountNext(ev, memory, from, to, stored.count)

\* VariableEvaluation::count_matches_in
ev_count_matches_in(ev, memory, from, to) ==
    IF from >= Len(memory) THEN Outcome(ev, 0)
    ELSE CountAfterStored(ev, memory, from, to, CountStored(ev.matches, 1, from, to, 0))

RECURSIVE FindAtStored(_, _, _)
\* for mat in &self.matches { .. } of find_at: "true", "false" or "next".
FindAtStored(stored, i, offset) ==
    IF i > Len(stored) THEN "next"
    ELSE IF stored[i].start < offset THEN FindAtStored(stored, i + 1, offset)
    ELSE IF stored[i].start = offset THEN "true"
    ELSE "false"

RECURSIVE FindAtNext(_, _, _)
RECURSIVE FindAtNextMatch(_, _, _)
\* while let Some(mat) = self.get_next_match(mem) { .. } of find_at
FindAtNext(ev, memory, offset) == FindAtNextMatch(get_next_match(ev, memory), memory, offset)

FindAtNextMatch(r, memory, offset) ==
    IF r.mat = None THEN Outcome(r.ev, FALSE)
    ELSE IF r.mat[1].start < offset THEN FindAtNext(r.ev, memory, offset)
    ELSE Outcome(r.ev, r.mat[1].start = offset)

\* find_at: after the stored matches, the matches yet to find.
FindAtAfterStored(ev, memory, offset, stored) ==
    IF stored = "next" THEN FindAtNext(ev, memory, offset)
    ELSE Outcome(ev, stored = "true")

\* VariableEvaluation::find_at
ev_find_at(ev, memory, offset) ==
    IF offset >= Len(memory) THEN Outcome(ev, FALSE)
    ELSE FindAtAfterStored(ev, memory, offset, FindAtStored(ev.matches, 1, offset))

RECURSIVE FindInStored(_, _, _, _)
\* for mat in &self.matches { .. } of find_in: "true", "false" or "next".
FindInStored(stored, i, from, to) ==
    IF i > Len(stored) THEN "next"
    ELSE IF stored[i].start > to THEN "false"
    ELSE IF stored[i].start >= from THEN "true"
    ELSE FindInStored(stored, i + 1, from, to)

RECURSIVE FindInNext(_, _, _, _)
RECURSIVE FindInNextMatch(_, _, _, _)
\* while let Some(mat) = self.get_next_match(mem) { .. } of find_in
FindInNext(ev, memory, from, to) ==
    FindInNextMatch(get_next_match(ev, memory), memory, from, to)

FindInNextMatch(r, memory, from, to) ==
    IF r.mat = None THEN Outcome(r.ev, FALSE)
    ELSE IF r.mat[1].start > to THEN Outcome(r.ev, FALSE)
    ELSE IF r.mat[1].start >= from THEN Outcome(r.ev, TRUE)
    ELSE FindInNext(r.ev, memory, from, to)

\* find_in: after the stored matches, the matches yet to find.
FindInAfterStored(ev, memory, from, to, stored) ==
    IF stored = "next" THEN FindInNext(ev, memory, from, to)
    ELSE Outcome(ev, stored = "true")

\* VariableEvaluation::find_in
ev_find_in(ev, memory, from, to) ==
    IF from >= Len(memory) THEN Outcome(ev, FALSE)
    ELSE FindInAfterStored(ev, memory, from, to, FindInStored(ev.matches, 1, from, to))

(***************************************************************************)
(* Part II.  The rule compiler (boreal/src/compiler/mod.rs).               *)
(*                                                                         *)
(* A rule name is a sequence of characters, so that str::starts_with is a  *)
(* prefix test.  A HashMap is a function on its set of keys.               *)
(***************************************************************************)
EmptyMap == [k \in {} |-> k]

\* HashMap::insert
Insert(map, key, value) ==
    [k \in (DOMAIN map) \cup {key} |-> IF k = key THEN value ELSE map[k]]

\* str::starts_with
starts_with(name, prefix) ==
    Len(prefix) <= Len(name) /\ SubSeq(name, 1, Len(prefix)) = prefix

\* parser::YaraFileComponent::Import
Import(name) == [type |-> "Import", name |-> name]

\* parser::YaraFileComponent::Rule
ParsedRule(name, is_global, is_private, rule_variables, condition) ==
    [type |-> "Rule", name |-> name, is_global |-> is_global, is_private |-> is_private,
     variables |-> rule_variables, condition |-> condition]

\* A string declaration of a rule: `$name = "<byte>"`, possibly private.
Declaration(name, is_private, byte) == [name |-> name, is_private |-> is_private, byte |-> byte]

\* The conditions of the rules:
\*   true / false, `any of them`, an identifier, `any of (prefix*)`.
CondBoolean(v) == [t |-> "Boolean", v |-> v, name |-> << >>, indexes |-> {}]

CondThem == [t |-> "Them", v |-> FALSE, name |-> << >>, indexes |-> {}]

CondIdentifier(name) == [t |-> "Identifier", v |-> FALSE, name |-> name, indexes |-> {}]

CondRuleSet(prefix) == [t |-> "RuleSet", v |-> FALSE, name |-> prefix, indexes |-> {}]

\* Compiled expressions: a reference to the result of an earlier rule, the
\* results of the rules of a rule set, a value of an imported module.
ExprRule(index) == [t |-> "Rule", v |-> FALSE, name |-> << >>, indexes |-> {index}]

ExprRuleSet(prefix, indexes) == [t |-> "RuleSet", v |-> FALSE, name |-> prefix, indexes |-> indexes]

ExprModule(name) == [t |-> "Module", v |-> TRUE, name |-> name, indexes |-> {}]

\* struct Namespace
Namespace(name) ==
    [name |-> name, rules_indexes |-> EmptyMap, imported_modules |-> EmptyMap,
     forbidden_rule_prefixes |-> << >>]

\* enum ModuleLocation
LocationModule == [kind |-> "Module", index |-> 0]

ImportedIndex(i) == [kind |-> "ImportedIndex", index |-> i]

\* Result<(), AddRuleError>; at is the component the error points to.
Ok == [ok |-> TRUE, kind |-> "Ok", at |-> 0]

Err(kind, at) == [ok |-> FALSE, kind |-> kind, at |-> at]

\* The namespace a source is added to: the default one for None.
GetNamespace(c, namespace) ==
    IF namespace = None THEN c.default_namespace ELSE c.namespaces[namespace[1]]

SetNamespace(c, namespace, ns) ==
    IF namespace = None THEN [c EXCEPT !.default_namespace = ns]
    ELSE [c EXCEPT !.namespaces = Insert(@, namespace[1], ns)]

\* compile_rule: the compiled rule, the namespace with the wildcard prefixes
\* of the condition added, or the compilation error.  An identifier resolves
\* to a rule of the namespace, then to a module imported in the namespace.
compile_rule(rule, ns) ==
    LET cond == rule.condition
        compiled(expr, namespace) ==
            [err |-> None,
             rule |-> Some([name |-> rule.name, namespace |-> ns.name,
                            is_private |-> rule.is_private, variables |-> rule.variables,
                            condition |-> expr]),
             namespace |-> namespace]
    IN CASE cond.t = "Identifier" ->
               IF cond.name \in DOMAIN ns.rules_indexes
               THEN IF ns.rules_indexes[cond.name] = None
                    THEN compiled(CondBoolean(TRUE), ns)
                    ELSE compiled(ExprRule(ns.rules_indexes[cond.name][1]), ns)
               ELSE IF cond.name \in DOMAIN ns.imported_modules
               THEN compiled(ExprModule(cond.name), ns)
               ELSE [err |-> Some("UnknownIdentifier"), rule |-> None, namespace |-> ns]
         [] cond.t = "RuleSet" ->
               compiled(ExprRuleSet(cond.name,
                                    {ns.rules_indexes[n][1] :
                                        n \in {m \in DOMAIN ns.rules_indexes :
                                                  /\ starts_with(m, cond.name)
                                                  /\ ns.rules_indexes[m] # None}}),
                        [ns EXCEPT !.forbidden_rule_prefixes = Append(@, cond.name)])
         [] OTHER -> compiled(cond, ns)

\* The outcome of one component: the compiler and the error, if any.
Step(c, err) == [compiler |-> c, err |-> err]

\* An import that also enters the default namespace.
AddImportShared(c, namespace, import) ==
    IF import.name \notin DOMAIN c.available_modules
    THEN Step(c, Some("UnknownImport"))
    ELSE LET loc == c.available_modules[import.name].location
             module_index == IF loc.kind = "ImportedIndex" THEN loc.index
                             ELSE Len(c.imported_modules)
             c1 == [c EXCEPT !.imported_modules =
                                  IF loc.kind = "Module" THEN Append(@, import.name) ELSE @,
                             !.available_modules[import.name].location =
                                  ImportedIndex(module_index),
                             !.default_namespace.imported_modules =
                                  Insert(@, import.name, [module_index |-> module_index])]
         IN Step(SetNamespace(c1, namespace,
                              [GetNamespace(c1, namespace) EXCEPT !.imported_modules =
                                  Insert(@, import.name, [module_index |-> module_index])]),
                 None)

\* An import that moves the module into the vec every time.
AddImportMovingAgain(c, namespace, import) ==
    IF import.name \notin DOMAIN c.available_modules
    THEN Step(c, Some("UnknownImport"))
    ELSE LET module_index == Len(c.imported_modules)
             ns == GetNamespace(c, namespace)
             c1 == [c EXCEPT !.imported_modules = Append(@, import.name),
                             !.available_modules[import.name].location =
                                  ImportedIndex(module_index)]
         IN Step(SetNamespace(c1, namespace,
                              [ns EXCEPT !.imported_modules =
                                  Insert(@, import.name, [module_index |-> module_index])]),
                 None)

\* add_file, YaraFileComponent::Import
AddImport(c, namespace, import) ==
    IF import.name \notin DOMAIN c.available_modules
    THEN Step(c, Some("UnknownImport"))
    ELSE LET loc == c.available_modules[import.name].location
             module_index == IF loc.kind = "ImportedIndex" THEN loc.index
                             ELSE Len(c.imported_modules)
             ns == GetNamespace(c, namespace)
             c1 == [c EXCEPT !.imported_modules =
                                  IF loc.kind = "Module" THEN Append(@, import.name) ELSE @,
                             !.available_modules[import.name].location =
                                  ImportedIndex(module_index)]
         IN Step(SetNamespace(c1, namespace,
                              [ns EXCEPT !.imported_modules =
                                  Insert(@, import.name, [module_index |-> module_index])]),
                 None)

\* A registration that gives every rule the index 0.
RegisterRuleAtZero(c, namespace, ns, rule, is_global) ==
    IF is_global
    THEN [SetNamespace(c, namespace,
                       [ns EXCEPT !.rules_indexes = Insert(@, rule.name, None)])
             EXCEPT !.global_rules = Append(@, rule)]
    ELSE [SetNamespace(c, namespace,
                       [ns EXCEPT !.rules_indexes = Insert(@, rule.name, Some(0))])
             EXCEPT !.rules = Append(@, rule)]

\* add_file: the compiled rule enters the name index and one of the two lists.
RegisterRule(c, namespace, ns, rule, is_global) ==
    IF is_global
    THEN [SetNamespace(c, namespace,
                       [ns EXCEPT !.rules_indexes = Insert(@, rule.name, None)])
             EXCEPT !.global_rules = Append(@, rule)]
    ELSE [SetNamespace(c, namespace,
                       [ns EXCEPT !.rules_indexes = Insert(@, rule.name, Some(Len(c.rules)))])
             EXCEPT !.rules = Append(@, rule)]

\* A prefix test that takes the wildcard for the name of a single rule.
IsForbiddenName(ns, name) ==
    \E i \in 1..Len(ns.forbidden_rule_prefixes) : name = ns.forbidden_rule_prefixes[i]

\* add_file: for prefix in &namespace.forbidden_rule_prefixes { .. }
IsForbidden(ns, name) ==
    \E i \in 1..Len(ns.forbidden_rule_prefixes) :
        starts_with(name, ns.forbidden_rule_prefixes[i])

\* An insertion that does not look the name up first.
InsertUnchecked(c, namespace, rule, res) ==
    IF res.err # None THEN Step(c, res.err)
    ELSE Step(RegisterRule(c, namespace, res.namespace, res.rule[1], rule.is_global), None)

\* add_file, from compile_rule on: the name is checked, then registered.
CheckThenInsert(c, namespace, rule, res) ==
    IF res.err # None THEN Step(c, res.err)
    ELSE IF rule.name \in DOMAIN res.namespace.rules_indexes
    THEN Step(SetNamespace(c, namespace, res.namespace), Some("DuplicatedRuleName"))
    ELSE Step(RegisterRule(c, namespace, res.namespace, res.rule[1], rule.is_global), None)

\* add_file, YaraFileComponent::Rule, in the namespace ns
AddRuleIn(c, namespace, rule, ns) ==
    IF IsForbidden(ns, rule.name) THEN Step(c, Some("MatchOnWildcardRuleSet"))
    ELSE CheckThenInsert(c, namespace, rule, compile_rule(rule, ns))

\* add_file, YaraFileComponent::Rule
AddRule(c, namespace, rule) == AddRuleIn(c, namespace, rule, GetNamespace(c, namespace))

RECURSIVE AddComponents(_, _, _, _)
RECURSIVE AfterComponent(_, _, _, _)
\* A loop that goes on with the next component after a failing one.
AfterComponentSkipping(step, namespace, components, k) ==
    IF step.err # None /\ k >= Len(components)
    THEN [compiler |-> step.compiler, result |-> Err(step.err[1], k)]
    ELSE AddComponents(step.compiler, namespace, components, k + 1)

\* add_file: the first error leaves the loop.
AfterComponent(step, namespace, components, k) ==
    IF step.err # None
    THEN [compiler |-> step.compiler, result |-> Err(step.err[1], k)]
    ELSE AddComponents(step.compiler, namespace, components, k + 1)

\* add_file: for component in file.components { .. }
AddComponents(c, namespace, components, k) ==
    IF k > Len(components) THEN [compiler |-> c, result |-> Ok]
    ELSE AfterComponent(IF components[k].type = "Import"
                        THEN AddImport(c, namespace, components[k])
                        ELSE AddRule(c, namespace, components[k]),
                        namespace, components, k)

\* An add_file that gives the compiler back as it was when a component fails.
add_file_rolled_back(c, file, namespace) ==
    LET c1 == IF namespace # None /\ namespace[1] \notin DOMAIN c.namespaces
              THEN [c EXCEPT !.namespaces = Insert(@, namespace[1], Namespace(namespace))]
              ELSE c
    IN IF AddComponents(c1, namespace, file, 1).result.ok
       THEN AddComponents(c1, namespace, file, 1)
       ELSE [compiler |-> c, result |-> AddComponents(c1, namespace, file, 1).result]

\* Compiler::add_file
add_file(c, file, namespace) ==
    LET c1 == IF namespace # None /\ namespace[1] \notin DOMAIN c.namespaces
              THEN [c EXCEPT !.namespaces = Insert(@, namespace[1], Namespace(namespace))]
              ELSE c
    IN AddComponents(c1, namespace, file, 1)

\* A source text: what parser::parse_str makes of it.
Source(parses, components) == [parses |-> parses, components |-> components]

\* add_rules_str and add_rules_str_in_namespace
add_rules(c, s, namespace) ==
    IF ~s.parses THEN [compiler |-> c, result |-> Err("ParseError", 0)]
    ELSE add_file(c, s.components, namespace)

\* A registration that overwrites the entry of a name already registered.
AddModuleOverwriting(c, name) ==
    [compiler |-> [c EXCEPT !.available_modules =
                      Insert(@, name, [location |-> LocationModule])],
     added |-> name \notin DOMAIN c.available_modules]

\* Compiler::add_module: the compiler and the boolean returned.
AddModule(c, name) ==
    IF name \in DOMAIN c.available_modules THEN [compiler |-> c, added |-> FALSE]
    ELSE [compiler |-> [c EXCEPT !.available_modules =
                            Insert(@, name, [location |-> LocationModule])],
          added |-> TRUE]

\* Module names.
ModTime == << "t", "i", "m", "e" >>

ModMath == << "m", "a", "t", "h" >>

ModTests == << "t", "e", "s", "t", "s" >>

\* Compiler::default
CompilerDefault ==
    [rules |-> << >>, global_rules |-> << >>, default_namespace |-> Namespace(None),
     namespaces |-> EmptyMap, available_modules |-> EmptyMap, imported_modules |-> << >>]

\* Compiler::new: the modules enabled by default.
CompilerNew == AddModule(AddModule(CompilerDefault, ModTime).compiler, ModMath).compiler

(***************************************************************************)
(* The scanner (boreal/src/scanner.rs).                                    *)
(***************************************************************************)
\* Scanner::new
ScannerNew(scanner_rules, modules) == [rules |-> scanner_rules, modules |-> modules]

RECURSIVE Occurrences(_, _, _)
\* The matches of a one-byte string in memory, from offset on.
Occurrences(byte, memory, offset) ==
    IF offset >= Len(memory) THEN << >>
    ELSE (IF At(memory, offset) = byte THEN << Range(offset, offset + 1) >> ELSE << >>)
         \o Occurrences(byte, memory, offset + 1)

RECURSIVE VarEvals(_, _)
\* The evaluations of the variables of a rule once its condition is evaluated.
VarEvals(rule_variables, memory) ==
    IF rule_variables = << >> THEN << >>
    ELSE << [var |-> Head(rule_variables),
             matches |-> Occurrences(Head(rule_variables).byte, memory, 0)] >>
         \o VarEvals(Tail(rule_variables), memory)

\* evaluator::evaluate_rule: the value of the condition and the evaluations
\* of the variables.
evaluate_rule(rule, memory, previous_results) ==
    LET var_evals == VarEvals(rule.variables, memory)
        cond == rule.condition
        res == CASE cond.t = "Boolean" -> cond.v
                 [] cond.t = "Them" ->
                       \E i \in 1..Len(var_evals) : var_evals[i].matches # << >>
                 [] cond.t = "Rule" ->
                       \E i \in cond.indexes :
                           i < Len(previous_results) /\ previous_results[i + 1]
                 [] cond.t = "RuleSet" ->
                       \E i \in cond.indexes :
                           i < Len(previous_results) /\ previous_results[i + 1]
                 [] cond.t = "Module" -> TRUE
                 [] OTHER -> FALSE
    IN [res |-> res, var_evals |-> var_evals]

RECURSIVE StringMatchesOf(_, _)
\* scan_mem: the StringMatches of the evaluations of the variables not private.
StringMatchesOf(var_evals, memory) ==
    IF var_evals = << >> THEN << >>
    ELSE (IF ~Head(var_evals).var.is_private
          THEN << [name |-> Head(var_evals).var.name,
                   matches |-> [i \in 1..Len(Head(var_evals).matches) |->
                                   [offset |-> Head(var_evals).matches[i].start,
                                    value |-> Slice(memory, Head(var_evals).matches[i].start,
                                                    Head(var_evals).matches[i].end)]]] >>
          ELSE << >>)
         \o StringMatchesOf(Tail(var_evals), memory)

\* A report of every rule whose condition holds.
ReportRuleAlways(rule, res, var_evals, memory) ==
    IF res
    THEN << [namespace |-> rule.namespace, name |-> rule.name,
             matches |-> StringMatchesOf(var_evals, memory)] >>
    ELSE << >>

\* scan_mem: the MatchedRule pushed for a rule, if any.
ReportRule(rule, res, var_evals, memory) ==
    IF res /\ ~rule.is_private
    THEN << [namespace |-> rule.namespace, name |-> rule.name,
             matches |-> StringMatchesOf(var_evals, memory)] >>
    ELSE << >>

RECURSIVE ScanRules(_, _, _, _, _)
RECURSIVE ScanNext(_, _, _, _, _, _)
\* scan_mem: for rule in &self.rules { .. }
ScanRules(scanner_rules, memory, i, matched_rules, previous_results) ==
    IF i > Len(scanner_rules)
    THEN [matched_rules |-> matched_rules, previous_results |-> previous_results]
    ELSE ScanNext(scanner_rules, memory, i, matched_rules, previous_results,
                  evaluate_rule(scanner_rules[i], memory, previous_results))

\* A loop that keeps the results of the reported rules only.
ScanNextReported(scanner_rules, memory, i, matched_rules, previous_results, evaluated) ==
    ScanRules(scanner_rules, memory, i + 1,
              matched_rules \o ReportRule(scanner_rules[i], evaluated.res,
                                          evaluated.var_evals, memory),
              IF evaluated.res /\ ~scanner_rules[i].is_private
              THEN Append(previous_results, evaluated.res) ELSE previous_results)

\* scan_mem: the body of the loop, once the rule is evaluated.
ScanNext(scanner_rules, memory, i, matched_rules, previous_results, evaluated) ==
    ScanRules(scanner_rules, memory, i + 1,
              matched_rules \o ReportRule(scanner_rules[i], evaluated.res,
                                          evaluated.var_evals, memory),
              Append(previous_results, evaluated.res))

(***************************************************************************)
(* State.                                                                  *)
(***************************************************************************)
VARIABLES
    \* Part I: one run of VariableSet::matches
    mem,        \* the scanned bytes
    variables,  \* the compiled variables of the scanner
    aho,        \* VariableSet: the patterns of the Aho-Corasick automaton
    aho_index_to_literal_info,  \* VariableSet: pattern index -> LiteralInfo
    non_handled_var_indexes,    \* VariableSet: the variables outside the automaton
    iter,       \* the Aho-Corasick matches find_overlapping_iter has yet to yield
    matches,    \* Vec<AcResult>, one per variable
    origin,     \* for each match in matches, the literal index of the hit that gave it
    event,      \* what the last call of handle_possible_match did
    acState,    \* "scanning" | "done" (matches returned) | "panicked"
    \* the cursor of one variable on one input
    ev_mem,     \* the bytes the cursor scans
    ev,         \* the VariableEvaluation
    ev_call,    \* the last query and the value it returned
    \* Part II: a compiler, then the scanner made of it
    compiler,   \* the Compiler
    call,       \* the last call on the compiler and its result
    adds,       \* number of sources added so far
    scanner,    \* None until into_scanner, then the Scanner
    scan,       \* None, or the input and the result of the last scan_mem
    \* Part III: one string declaration
    decl,       \* the declared bytes and modifiers
    compiled,   \* None, or the Variable compile_variable made of decl
    widened,    \* string_to_wide applied to the declared bytes, once, twice, ..
    \* Part IV: two sources added to two compilers, in the two orders
    pair,       \* the two sources and the namespace they are added to
    runs,       \* for each order, the compiler, the results, the scanner, the scan
    \* Part V: the thread pool of the command line tool
    cli,        \* the arguments, the parallelism of the machine, the scanner of main
    pool,       \* None until ThreadPool::new, then the workers and the channel
    done,       \* the scans completed: path, input and matched rules
    stderr,     \* the lines written on stderr
    exit_code,  \* None while main runs, then the exit code of the process
    \* Part VI: the pure functions, each with its input and its result
    hex,        \* a hex string as written, and what hex_string made of it
    module_expr, \* a module expression, and what evaluate_expr made of it
    serial      \* the bytes given to compute_serial_correlation, and its sum

acVars == <<mem, variables, aho, aho_index_to_literal_info, non_handled_var_indexes,
           iter, matches, origin, event, acState>>

acFixed == <<mem, variables, aho, aho_index_to_literal_info, non_handled_var_indexes>>

evVars == <<ev_mem, ev, ev_call>>

ruleVars == <<compiler, call, adds, scanner, scan>>

litVars == <<decl, compiled, widened>>

ordVars == <<pair, runs>>

poolVars == <<cli, pool, done, stderr, exit_code>>

pureVars == <<hex, module_expr, serial>>

extVars == <<litVars, ordVars, poolVars, pureVars>>

vars == <<acVars, evVars, ruleVars, extVars>>

\* The last saved match of the variable, plus one.
StartPosition(res) ==
    IF res.kind = "Matches" /\ res.v # << >> THEN res.v[Len(res.v)].start + 1 ELSE 0

\* The span of the literal around an automaton match; None if it leaves mem.
Upscale(mat, info, memory) ==
    LET start == mat.start - info.slice_offset[1]
        end == mat.end + info.slice_offset[2]
    IN IF start < 0 THEN None
       ELSE IF end > Len(memory) THEN None
       ELSE Some(Range(start, end))

\* The new AcResult of the variable after process_ac_match returned status.
Accumulate(res, status) ==
    CASE status.kind \in {"Multiple", "Single"} ->
            IF res.kind = "Matches" THEN AcMatches(res.v \o status.v)
            ELSE AcMatches(status.v)
      [] status.kind = "Unknown" -> AcUnknown
      [] OTHER -> res

\* VariableSet::handle_possible_match on the next match of the automaton.
handle_possible_match ==
    /\ acState = "scanning"
    /\ iter # << >>
    /\ LET mat == Head(iter)
           info == aho_index_to_literal_info[mat.pattern + 1]
           vi == info.variable_index + 1
           var == variables[vi]
           m == Upscale(mat, info, mem)
       IN /\ iter' = Tail(iter)
          /\ IF m = None
             THEN /\ event' = [kind |-> "discarded", hit |-> mat, info |-> info]
                  /\ UNCHANGED <<matches, origin, acState>>
             ELSE IF ~confirm_ac_literal(var, mem, m[1], info.literal_index)
             THEN /\ event' = [kind |-> "unconfirmed", hit |-> mat, info |-> info]
                  /\ UNCHANGED <<matches, origin, acState>>
             ELSE LET status == process_ac_match(var, mem, m[1], StartPosition(matches[vi]))
                  IN IF status.kind = "Panic"
                     THEN /\ acState' = "panicked"
                          /\ event' = [kind |-> "panic", hit |-> mat, info |-> info]
                          /\ UNCHANGED <<matches, origin>>
                     ELSE /\ matches' = [matches EXCEPT ![vi] = Accumulate(@, status)]
                          /\ origin' = [origin EXCEPT ![vi] =
                                @ \o [i \in 1..Len(status.v) |-> info.literal_index]]
                          /\ event' = [kind |-> "processed", hit |-> mat, info |-> info]
                          /\ UNCHANGED acState
    /\ UNCHANGED <<acFixed, evVars, ruleVars, extVars>>

\* VariableSet::matches, after the loop: the variables outside the automaton.
matches_return ==
    /\ acState = "scanning"
    /\ iter = << >>
    /\ matches' = [i \in 1..Len(variables) |->
                     IF (i - 1) \in non_handled_var_indexes THEN AcUnknown
                     ELSE matches[i]]
    /\ acState' = "done"
    /\ event' = [kind |-> "return", hit |-> None, info |-> None]
    /\ UNCHANGED <<acFixed, iter, origin, evVars, ruleVars, extVars>>

(***************************************************************************)
(* The inputs of Part I: the rules' variables and the scanned bytes.       *)
(***************************************************************************)
NoFlags == Flags(FALSE, FALSE, FALSE, FALSE, FALSE, FALSE)

\* The string declarations `$a = "..." <modifiers>` that are compiled.
BytesDeclarations ==
    LET a == << 97 >>
        aA == << 97, 65 >>
        long1 == << 45, 97, 97, 97, 97 >>
        aNul == << 97, 0 >>
        nulA == << 0, 97 >>
        long2 == << 97, 97, 97, 97, 45 >>
        plain == Modifiers(NoFlags, 0, 0)
        with(f) == Modifiers(f, 0, 0)
    IN { <<a, plain>>,
         <<a, with([NoFlags EXCEPT !.NOCASE = TRUE])>>,
         <<a, with([NoFlags EXCEPT !.FULLWORD = TRUE])>>,
         <<a, with([NoFlags EXCEPT !.WIDE = TRUE, !.FULLWORD = TRUE])>>,
         <<a, with([NoFlags EXCEPT !.ASCII = TRUE, !.WIDE = TRUE])>>,
         <<a, with([NoFlags EXCEPT !.ASCII = TRUE, !.WIDE = TRUE, !.FULLWORD = TRUE])>>,
         <<a, Modifiers([NoFlags EXCEPT !.WIDE = TRUE, !.FULLWORD = TRUE, !.XOR = TRUE], 96, 97)>>,
         <<aA, plain>>,
         <<aA, with([NoFlags EXCEPT !.NOCASE = TRUE, !.FULLWORD = TRUE])>>,
         <<aA, with([NoFlags EXCEPT !.ASCII = TRUE, !.WIDE = TRUE, !.NOCASE = TRUE])>>,
         <<aNul, with([NoFlags EXCEPT !.ASCII = TRUE, !.WIDE = TRUE, !.FULLWORD = TRUE])>>,
         <<nulA, with([NoFlags EXCEPT !.ASCII = TRUE, !.WIDE = TRUE])>>,
         <<long1, plain>>,
         <<long2, with([NoFlags EXCEPT !.NOCASE = TRUE])>> }

\* Regex variables as the atom extraction hands them over:
\*   /A.?aa/           atom "aa", left validator  A.?aa$
\*   /aa.?A/ fullword  atom "aa", right validator ^aa.?A
\*   /A.?aa-*/         atom "aa", both validators
\*   /A.?aa/ fullword  atom "aa", left validator  A.?aa$
\*   /\baa/ wide       atom "a\0a\0", checked afterwards with the non wide regex
RegexVariables ==
    LET aa == << 97, 97 >>
        left == Regex(<< Item("byte", 65), Item("optany", 0), Item("byte", 97),
                         Item("byte", 97), Item("eol", 0) >>, FALSE)
        right == Regex(<< Item("bol", 0), Item("byte", 97), Item("byte", 97),
                          Item("optany", 0), Item("byte", 65) >>, FALSE)
        tail == Regex(<< Item("bol", 0), Item("byte", 97), Item("byte", 97),
                         Item("star", 45) >>, FALSE)
        nonwide == Regex(<< Item("wb", 0), Item("byte", 97), Item("byte", 97) >>, FALSE)
        ascii == [NoFlags EXCEPT !.ASCII = TRUE]
    IN { Variable("a", << aa >>, ascii, MatcherAtomized(Some(left), None), None),
         Variable("a", << aa >>, [ascii EXCEPT !.FULLWORD = TRUE],
                  MatcherAtomized(None, Some(right)), None),
         Variable("a", << aa >>, ascii, MatcherAtomized(Some(left), Some(tail)), None),
         Variable("a", << aa >>, [ascii EXCEPT !.FULLWORD = TRUE],
                  MatcherAtomized(Some(left), None), None),
         Variable("a", << string_to_wide(aa) >>, [NoFlags EXCEPT !.WIDE = TRUE],
                  MatcherAtomized(None, None), Some(nonwide)) }

\* A variable no literal could be extracted from: /a*/
RawVariable ==
    Variable("b", << >>, [NoFlags EXCEPT !.ASCII = TRUE],
             MatcherRaw(Regex(<< Item("star", 97) >>, FALSE)), None)

FirstVariables == {compile_variable("a", d[1], d[2]) : d \in BytesDeclarations} \cup RegexVariables

SecondVariables ==
    { RawVariable,
      compile_variable("b", << 65 >>, Modifiers([NoFlags EXCEPT !.NOCASE = TRUE], 0, 0)) }

VariableLists ==
    {<< v >> : v \in FirstVariables} \cup {<< v, w >> : v \in FirstVariables, w \in SecondVariables}

Inputs == UNION {[1..n -> Alphabet] : n \in 0..MaxMemLen}

\* The parts a specification leaves alone.
acIdle ==
    /\ mem = << >>
    /\ variables = << >>
    /\ aho = << >>
    /\ aho_index_to_literal_info = << >>
    /\ non_handled_var_indexes = {}
    /\ iter = << >>
    /\ matches = << >>
    /\ origin = << >>
    /\ event = [kind |-> "idle", hit |-> None, info |-> None]
    /\ acState = "idle"

evIdle ==
    /\ ev_mem = << >>
    /\ ev = VariableEvaluation(RawVariable)
    /\ ev_call = [op |-> "idle", args |-> << >>, value |-> None]

rulesIdle ==
    /\ compiler = CompilerDefault
    /\ call = [op |-> "idle", namespace |-> None, source |-> Source(FALSE, << >>),
               module |-> << >>, result |-> Ok]
    /\ adds = 0
    /\ scanner = None
    /\ scan = None

litIdle ==
    /\ decl = [value |-> << >>, modifiers |-> Modifiers(NoFlags, 0, 0)]
    /\ compiled = None
    /\ widened = << >>

\* One order of the two sources: its compiler, the results of its calls, the
\* scanner made of the compiler and the last scan.
Run(c) == [compiler |-> c, results |-> << >>, scanner |-> None, scan |-> None]

ordIdle ==
    /\ pair = [first |-> Source(FALSE, << >>), second |-> Source(FALSE, << >>),
               namespace |-> None]
    /\ runs = [ab |-> Run(CompilerDefault), ba |-> Run(CompilerDefault)]

poolIdle ==
    /\ cli = [rules_file |-> Source(FALSE, << >>), scanner |-> None, threads |-> None,
              cpus |-> 1, input |-> [is_dir |-> TRUE, file |-> None]]
    /\ pool = None
    /\ done = {}
    /\ stderr = {}
    /\ exit_code = None

hexIdle == hex = [source |-> << >>, result |-> None]

exprIdle == module_expr = [expr |-> None, result |-> None]

serialIdle == serial = [bytes |-> << >>, result |-> None]

pureIdle == hexIdle /\ exprIdle /\ serialIdle

extIdle == litIdle /\ ordIdle /\ poolIdle /\ pureIdle

InitAC ==
    /\ evIdle
    /\ rulesIdle
    /\ extIdle
    /\ variables \in VariableLists
    /\ mem \in Inputs
    /\ aho_index_to_literal_info = BuildLiteralInfo(variables, 0)
    /\ non_handled_var_indexes = NonHandledVarIndexes(variables)
    /\ aho = AhoPatterns(variables, aho_index_to_literal_info, 1)
    /\ iter = find_overlapping_iter(aho, mem)
    /\ matches = [i \in 1..Len(variables) |-> AcNotFound]
    /\ origin = [i \in 1..Len(variables) |-> << >>]
    /\ event = [kind |-> "new", hit |-> None, info |-> None]
    /\ acState = "scanning"

NextAC ==
    \/ handle_possible_match
    \/ matches_return

SpecAC == InitAC /\ [][NextAC]_vars

(***************************************************************************)
(* The queries on a cursor.                                                *)
(***************************************************************************)
\* Longest input a cursor scans.
MaxEvalLen == 3

\* A query leaves its cursor and the value it returned.
Answer(op, args, outcome) ==
    /\ ev' = outcome.ev
    /\ ev_call' = [op |-> op, args |-> args, value |-> outcome.value]

find ==
    /\ Answer("find", << >>, ev_find(ev, ev_mem))
    /\ UNCHANGED <<ev_mem, acVars, ruleVars, extVars>>

find_match_occurence ==
    /\ \E occurence_number \in 0..MaxEvalLen :
          Answer("find_match_occurence", << occurence_number >>,
                 ev_find_match_occurence(ev, ev_mem, occurence_number))
    /\ UNCHANGED <<ev_mem, acVars, ruleVars, extVars>>

count_matches ==
    /\ Answer("count_matches", << >>, ev_count_matches(ev, ev_mem))
    /\ UNCHANGED <<ev_mem, acVars, ruleVars, extVars>>

count_matches_in ==
    /\ \E from \in 0..MaxEvalLen, to \in 0..MaxEvalLen :
          Answer("count_matches_in", << from, to >>, ev_count_matches_in(ev, ev_mem, from, to))
    /\ UNCHANGED <<ev_mem, acVars, ruleVars, extVars>>

find_at ==
    /\ \E offset \in 0..MaxEvalLen :
          Answer("find_at", << offset >>, ev_find_at(ev, ev_mem, offset))
    /\ UNCHANGED <<ev_mem, acVars, ruleVars, extVars>>

find_in ==
    /\ \E from \in 0..MaxEvalLen, to \in 0..MaxEvalLen :
          Answer("find_in", << from, to >>, ev_find_in(ev, ev_mem, from, to))
    /\ UNCHANGED <<ev_mem, acVars, ruleVars, extVars>>

(***************************************************************************)
(* The calls on a compiler and on the scanner made of it.                  *)
(***************************************************************************)
NoSource == Source(FALSE, << >>)

Call(op, namespace, source, module, result) ==
    [op |-> op, namespace |-> namespace, source |-> source, module |-> module,
     result |-> result]

\* Rule names.
Na == << "a" >>

Nab == << "a", "b" >>

Nb == << "b" >>

\* The rules of the sources:
\*   rule a { condition: true }
\*   global rule a { strings: $s = "a" condition: any of them }
\*   private rule ab { condition: true }
\*   rule b { strings: $s = "a" private $p = "a" condition: any of them }
\*   rule b { condition: any of (a*) }
\*   rule ab { condition: b }
\*   rule b { condition: time.now() > 0 }
RuleA == ParsedRule(Na, FALSE, FALSE, << >>, CondBoolean(TRUE))

GlobalA == ParsedRule(Na, TRUE, FALSE, << Declaration("s", FALSE, 97) >>, CondThem)

PrivateAb == ParsedRule(Nab, FALSE, TRUE, << >>, CondBoolean(TRUE))

RuleBThem ==
    ParsedRule(Nb, FALSE, FALSE,
               << Declaration("s", FALSE, 97), Declaration("p", TRUE, 97) >>, CondThem)

RuleBSet == ParsedRule(Nb, FALSE, FALSE, << >>, CondRuleSet(Na))

RuleAbRef == ParsedRule(Nab, FALSE, FALSE, << >>, CondIdentifier(Nb))

RuleBTime == ParsedRule(Nb, FALSE, FALSE, << >>, CondIdentifier(ModTime))

\* The source texts given to add_rules_str and add_rules_str_in_namespace.
Sources ==
    { Source(FALSE, << >>),
      Source(TRUE, << RuleA >>),
      Source(TRUE, << GlobalA >>),
      Source(TRUE, << PrivateAb >>),
      Source(TRUE, << RuleBThem >>),
      Source(TRUE, << RuleBSet >>),
      Source(TRUE, << RuleAbRef >>),
      Source(TRUE, << RuleBTime >>),
      Source(TRUE, << Import(ModTime) >>),
      Source(TRUE, << Import(ModTests) >>),
      Source(TRUE, << Import(ModTime), RuleBTime >>),
      Source(TRUE, << RuleA, RuleA >>),
      Source(TRUE, << RuleA, RuleBSet, RuleA >>),
      Source(TRUE, << RuleBSet, PrivateAb >>),
      Source(TRUE, << GlobalA, RuleBThem >>) }

\* The names of the namespaces other than the default one.
NamespaceNames == { "ns1" }

\* The modules given to add_module.
Modules == { ModTime, ModTests }

\* Longest input given to scan_mem.
MaxScanLen == 1

\* The bytes of the inputs given to scan_mem: 'A', 'a'.
ScanAlphabet == {65, 97}

ScanInputs == UNION {[1..n -> ScanAlphabet] : n \in 0..MaxScanLen}

\* A call leaves its compiler and what it returned.
Returned(op, namespace, source, r) ==
    /\ compiler' = r.compiler
    /\ call' = Call(op, namespace, source, << >>, r.result)

ModuleAdded(m, r) ==
    /\ compiler' = r.compiler
    /\ call' = Call("add_module", None, NoSource, m,
                    [ok |-> r.added, kind |-> "Module", at |-> 0])

ScanReturned(memory, r) ==
    scan' = Some([mem |-> memory, matched_rules |-> r.matched_rules,
                  previous_results |-> r.previous_results])

add_module ==
    /\ scanner = None
    /\ \E m \in Modules : ModuleAdded(m, AddModule(compiler, m))
    /\ UNCHANGED <<adds, scanner, scan, acVars, evVars, extVars>>

add_rules_str ==
    /\ scanner = None
    /\ adds < MaxAdds
    /\ \E s \in Sources : Returned("add_rules_str", None, s, add_rules(compiler, s, None))
    /\ adds' = adds + 1
    /\ UNCHANGED <<scanner, scan, acVars, evVars, extVars>>

add_rules_str_in_namespace ==
    /\ scanner = None
    /\ adds < MaxAdds
    /\ \E s \in Sources, namespace \in NamespaceNames :
          Returned("add_rules_str_in_namespace", Some(namespace), s,
                   add_rules(compiler, s, Some(namespace)))
    /\ adds' = adds + 1
    /\ UNCHANGED <<scanner, scan, acVars, evVars, extVars>>

\* Compiler::into_scanner: Scanner::new keeps the rules and the modules.
into_scanner ==
    /\ scanner = None
    /\ scanner' = Some(ScannerNew(compiler.rules, compiler.imported_modules))
    /\ call' = Call("into_scanner", None, NoSource, << >>, Ok)
    /\ UNCHANGED <<compiler, adds, scan, acVars, evVars, extVars>>

\* Scanner::scan_mem
scan_mem ==
    /\ scanner # None
    /\ \E memory \in ScanInputs :
          ScanReturned(memory, ScanRules(scanner[1].rules, memory, 1, << >>, << >>))
    /\ UNCHANGED <<compiler, call, adds, scanner, acVars, evVars, extVars>>

\* The raw variables a cursor evaluates: /a*/, /a*$/, /a*/ fullword,
\* /.a*/ nocase.
RawVariables ==
    LET ascii == [NoFlags EXCEPT !.ASCII = TRUE]
    IN { RawVariable,
         Variable("b", << >>, ascii,
                  MatcherRaw(Regex(<< Item("star", 97), Item("eol", 0) >>, FALSE)), None),
         Variable("b", << >>, [ascii EXCEPT !.FULLWORD = TRUE],
                  MatcherRaw(Regex(<< Item("star", 97) >>, FALSE)), None),
         Variable("b", << >>, [ascii EXCEPT !.NOCASE = TRUE],
                  MatcherRaw(Regex(<< Item("any", 0), Item("star", 97) >>, TRUE)), None) }

\* The bytes of the inputs a cursor scans: NUL, 'A', 'a'.
EvalAlphabet == {0, 65, 97}

EvalInputs == UNION {[1..n -> EvalAlphabet] : n \in 0..MaxEvalLen}

InitEval ==
    /\ acIdle
    /\ rulesIdle
    /\ extIdle
    /\ ev_mem \in EvalInputs
    /\ \E var \in RawVariables : ev = VariableEvaluation(var)
    /\ ev_call = [op |-> "new", args |-> << >>, value |-> None]

NextEval ==
    \/ find
    \/ find_match_occurence
    \/ count_matches
    \/ count_matches_in
    \/ find_at
    \/ find_in

SpecEval == InitEval /\ [][NextEval]_vars

InitRules ==
    /\ acIdle
    /\ evIdle
    /\ extIdle
    /\ compiler = CompilerNew
    /\ call = Call("new", None, NoSource, << >>, Ok)
    /\ adds = 0
    /\ scanner = None
    /\ scan = None

NextRules ==
    \/ add_module
    \/ add_rules_str
    \/ add_rules_str_in_namespace
    \/ into_scanner
    \/ scan_mem

SpecRules == InitRules /\ [][NextRules]_vars

(***************************************************************************)
(* Part III.  The literals of a string declaration                         *)
(* (boreal/src/compiler/variable.rs, compiler/variable/matcher.rs).        *)
(***************************************************************************)
\* Longest declared string.
MaxStringLen == 2

\* Number of times string_to_wide is applied in a row.
MaxWidenings == 2

\* The declared strings: ASCII bytes, NUL included.
Strings == UNION {[1..n -> Alphabet] : n \in 0..MaxStringLen}

\* The modifiers of the declarations: none, wide, ascii wide,
\* ascii wide xor(96-97), wide xor(96-97).
StringModifiers ==
    { Modifiers(NoFlags, 0, 0),
      Modifiers([NoFlags EXCEPT !.WIDE = TRUE], 0, 0),
      Modifiers([NoFlags EXCEPT !.ASCII = TRUE, !.WIDE = TRUE], 0, 0),
      Modifiers([NoFlags EXCEPT !.ASCII = TRUE, !.WIDE = TRUE, !.XOR = TRUE], 96, 97),
      Modifiers([NoFlags EXCEPT !.WIDE = TRUE, !.XOR = TRUE], 96, 97) }

\* Matcher::confirm_ac_literal: whether the MatchType of a hit on literal
\* literal_index is a wide one (WideStandard or WideAlternate).
match_type_is_wide(flags, literals, literal_index) ==
    IF ~flags.ASCII /\ flags.WIDE THEN TRUE
    ELSE flags.ASCII /\ flags.WIDE /\ literal_index >= Len(literals) \div 2

\* compile_variable on the declaration; a declared string is not empty.
CompileDeclaration ==
    /\ compiled = None
    /\ decl.value # << >>
    /\ compiled' = Some(compile_variable("a", decl.value, decl.modifiers))
    /\ UNCHANGED <<decl, widened, acVars, evVars, ruleVars, ordVars, poolVars, pureVars>>

\* string_to_wide on the declared bytes, then on its own result.
Widen ==
    /\ Len(widened) < MaxWidenings
    /\ widened' = Append(widened,
                         string_to_wide(IF widened = << >> THEN decl.value
                                        ELSE widened[Len(widened)]))
    /\ UNCHANGED <<decl, compiled, acVars, evVars, ruleVars, ordVars, poolVars, pureVars>>

InitCompile ==
    /\ acIdle
    /\ evIdle
    /\ rulesIdle
    /\ pureIdle
    /\ ordIdle
    /\ poolIdle
    /\ decl \in [value : Strings, modifiers : StringModifiers]
    /\ compiled = None
    /\ widened = << >>

NextCompile ==
    \/ CompileDeclaration
    \/ Widen

SpecCompile == InitCompile /\ [][NextCompile]_vars

(***************************************************************************)
(* Part IV.  Two sources added to the same namespace of a new compiler, in *)
(* the two orders (boreal/src/compiler/mod.rs, boreal/src/scanner.rs).     *)
(***************************************************************************)
\* The sources of a pair: those of Part II and
\*   rule b { strings: .. condition: any of them } rule ab { condition: b }
OrderSources == Sources \cup { Source(TRUE, << RuleBThem, RuleAbRef >>) }

\* add_rules_str / add_rules_str_in_namespace on the compiler of a run.
AddToRun(run, s, namespace, r) ==
    [run EXCEPT !.compiler = r.compiler, !.results = Append(@, r.result)]

\* Compiler::into_scanner on the compiler of a run.
RunIntoScanner(run) ==
    [run EXCEPT !.scanner = Some(ScannerNew(run.compiler.rules, run.compiler.imported_modules))]

\* Scanner::scan_mem on the scanner of a run.
RunScan(run, memory, r) ==
    [run EXCEPT !.scan = Some([mem |-> memory, matched_rules |-> r.matched_rules])]

\* Each order adds its next source.
AddInOrder ==
    /\ Len(runs.ab.results) < 2
    /\ LET k == Len(runs.ab.results)
           a == IF k = 0 THEN pair.first ELSE pair.second
           b == IF k = 0 THEN pair.second ELSE pair.first
       IN runs' = [ab |-> AddToRun(runs.ab, a, pair.namespace,
                                   add_rules(runs.ab.compiler, a, pair.namespace)),
                   ba |-> AddToRun(runs.ba, b, pair.namespace,
                                   add_rules(runs.ba.compiler, b, pair.namespace))]
    /\ UNCHANGED <<pair, acVars, evVars, ruleVars, litVars, poolVars, pureVars>>

\* Each compiler is turned into a scanner.
MakeScanners ==
    /\ Len(runs.ab.results) = 2
    /\ runs.ab.scanner = None
    /\ runs' = [ab |-> RunIntoScanner(runs.ab), ba |-> RunIntoScanner(runs.ba)]
    /\ UNCHANGED <<pair, acVars, evVars, ruleVars, litVars, poolVars, pureVars>>

\* The two scanners scan the same input.
ScanBoth ==
    /\ runs.ab.scanner # None
    /\ \E memory \in ScanInputs :
          runs' = [ab |-> RunScan(runs.ab, memory,
                                  ScanRules(runs.ab.scanner[1].rules, memory, 1, << >>, << >>)),
                   ba |-> RunScan(runs.ba, memory,
                                  ScanRules(runs.ba.scanner[1].rules, memory, 1, << >>, << >>))]
    /\ UNCHANGED <<pair, acVars, evVars, ruleVars, litVars, poolVars, pureVars>>

InitOrder ==
    /\ acIdle
    /\ evIdle
    /\ rulesIdle
    /\ pureIdle
    /\ litIdle
    /\ poolIdle
    /\ pair \in [first : OrderSources, second : OrderSources,
                  namespace : {None} \cup {Some(n) : n \in NamespaceNames}]
    /\ runs = [ab |-> Run(CompilerNew), ba |-> Run(CompilerNew)]

NextOrder ==
    \/ AddInOrder
    \/ MakeScanners
    \/ ScanBoth

SpecOrder == InitOrder /\ [][NextOrder]_vars

(***************************************************************************)
(* Part V.  The worker threads of a directory scan                         *)
(* (boreal-cli/src/main.rs, boreal/src/scanner.rs).                        *)
(*                                                                         *)
(* Each worker holds a clone of the scanner and receives the inputs from a *)
(* bounded channel.  scan_mem is taken one rule at a time, so that the     *)
(* scans of the workers interleave.                                        *)
(***************************************************************************)
\* Largest value given to `--threads`.
MaxThreads == 3

\* Largest std::thread::available_parallelism.
MaxCpus == 2

\* Number of files the directory walk sends.
MaxPaths == 2

\* The exit codes of the process: ExitCode::SUCCESS, ExitCode::FAILURE, and
\* the code of a process whose main thread panicked.
ExitSuccess == 0

ExitFailure == 1

ExitPanic == 101

\* A line written on stderr; path is 0 when the line names no scanned file.
Line(kind, path) == [kind |-> kind, path |-> path]

\* A file: its bytes, or None when it cannot be opened or read.
Readable(memory) == Some(memory)

Unreadable == None

\* The files of the inputs.
Files == {Readable(m) : m \in {<< 65 >>, << 97 >>}} \cup {Unreadable}

\* The `input` argument: a directory, or one file.
Directory == [is_dir |-> TRUE, file |-> Unreadable]

InputFile(file) == [is_dir |-> FALSE, file |-> file]

\* scan_mem: the state local to one call.
ScanLocal(memory) ==
    [mem |-> memory, i |-> 1, matched_rules |-> << >>, previous_results |-> << >>]

\* A rule evaluation that keeps its result in the scanner, in place of the
\* condition of the rule.
scan_rule_caching(sc, local, evaluated) ==
    [scanner |-> [sc EXCEPT !.rules[local.i].condition = CondBoolean(evaluated.res)],
     local |-> [local EXCEPT !.i = @ + 1,
                             !.matched_rules =
                                 @ \o ReportRule(sc.rules[local.i], evaluated.res,
                                                 evaluated.var_evals, local.mem),
                             !.previous_results = Append(@, evaluated.res)]]

\* scan_mem: one turn of `for rule in &self.rules`, the rule being evaluated;
\* the scanner is behind a shared reference.
scan_rule(sc, local, evaluated) ==
    [scanner |-> sc,
     local |-> [local EXCEPT !.i = @ + 1,
                             !.matched_rules =
                                 @ \o ReportRule(sc.rules[local.i], evaluated.res,
                                                 evaluated.var_evals, local.mem),
                             !.previous_results = Append(@, evaluated.res)]]

\* ThreadPool::worker_thread: the worker clones the scanner and waits.
worker_thread(sc) ==
    [scanner |-> sc, state |-> "recv", path |-> 0, local |-> ScanLocal(<< >>)]

\* ThreadPool::new: the number of workers.
nb_cpus(threads, cpus) == IF threads # None THEN Min(1, threads[1]) ELSE cpus

\* ThreadPool::new; `received` lists the entries in the order the workers took
\* them from the channel.
ThreadPoolNew(sc, threads, cpus) ==
    [workers |-> [w \in 1..nb_cpus(threads, cpus) |-> worker_thread(sc)],
     capacity |-> nb_cpus(threads, cpus) * 5,
     queue |-> << >>,
     sent |-> 0,
     received |-> << >>,
     sender |-> TRUE,
     joined |-> FALSE]

\* The scanner of a compiler: Compiler::into_scanner.
ScannerOf(c) == ScannerNew(c.rules, c.imported_modules)

\* main, once add_rules_file returned: the diagnostic and the failure, or the
\* scanner.
RulesAdded(r) ==
    IF r.result.ok
    THEN /\ cli' = [cli EXCEPT !.scanner = Some(ScannerOf(r.compiler))]
         /\ UNCHANGED <<stderr, exit_code>>
    ELSE /\ stderr' = stderr \cup {Line("diagnostic", 0)}
         /\ exit_code' = Some(ExitFailure)
         /\ UNCHANGED cli

\* compiler.add_rules_file(rules_file), then compiler.into_scanner()
add_rules_file ==
    /\ cli.scanner = None
    /\ exit_code = None
    /\ RulesAdded(add_rules(CompilerNew, cli.rules_file, None))
    /\ UNCHANGED <<pool, done, acVars, evVars, ruleVars, litVars, ordVars, pureVars>>

\* match scan_file(&scanner, input, ..), the input being a file.
ScanInput(sc, file) ==
    IF file = Unreadable
    THEN /\ stderr' = stderr \cup {Line("Cannot scan", 1)}
         /\ exit_code' = Some(ExitFailure)
         /\ UNCHANGED done
    ELSE /\ done' = done \cup {[path |-> 1, mem |-> file[1],
                                 matched_rules |->
                                     ScanRules(sc.rules, file[1], 1, << >>, << >>).matched_rules]}
         /\ exit_code' = Some(ExitSuccess)
         /\ UNCHANGED stderr

\* main, the input not being a directory
scan_input_file ==
    /\ cli.scanner # None
    /\ exit_code = None
    /\ ~cli.input.is_dir
    /\ ScanInput(cli.scanner[1], cli.input.file)
    /\ UNCHANGED <<cli, pool, acVars, evVars, ruleVars, litVars, ordVars, pureVars>>

\* let (thread_pool, sender) = ThreadPool::new(&scanner, &args);
new_pool ==
    /\ cli.scanner # None
    /\ cli.input.is_dir
    /\ pool = None
    /\ pool' = Some(ThreadPoolNew(cli.scanner[1], cli.threads, cli.cpus))
    /\ UNCHANGED <<cli, done, stderr, exit_code, acVars, evVars, ruleVars, litVars, ordVars, pureVars>>

\* for entry in walker: an entry that cannot be read is reported and skipped.
walk_error ==
    /\ pool # None
    /\ pool[1].sender
    /\ stderr' = stderr \cup {Line("walk", 0)}
    /\ UNCHANGED <<cli, pool, done, exit_code, acVars, evVars, ruleVars, litVars, ordVars, pureVars>>

\* sender.send(path): blocks while the channel is full.
send ==
    /\ pool # None
    /\ pool[1].sender
    /\ pool[1].sent < MaxPaths
    /\ Len(pool[1].workers) > 0
    /\ Len(pool[1].queue) < pool[1].capacity
    /\ \E file \in Files :
          pool' = Some([pool[1] EXCEPT
                           !.queue = Append(@, [path |-> pool[1].sent + 1, file |-> file]),
                           !.sent = @ + 1])
    /\ UNCHANGED <<cli, done, stderr, exit_code, acVars, evVars, ruleVars, litVars, ordVars, pureVars>>

\* sender.send(path).unwrap() when no worker holds a receiver: the channel is
\* disconnected, send fails and the main thread panics.
send_disconnected ==
    /\ pool # None
    /\ pool[1].sender
    /\ pool[1].sent < MaxPaths
    /\ Len(pool[1].workers) = 0
    /\ pool' = Some([pool[1] EXCEPT !.sender = FALSE])
    /\ stderr' = stderr \cup {Line("panic", 0)}
    /\ exit_code' = Some(ExitPanic)
    /\ UNCHANGED <<cli, done, acVars, evVars, ruleVars, litVars, ordVars, pureVars>>

\* drop(sender)
drop_sender ==
    /\ pool # None
    /\ pool[1].sender
    /\ pool' = Some([pool[1] EXCEPT !.sender = FALSE])
    /\ UNCHANGED <<cli, done, stderr, exit_code, acVars, evVars, ruleVars, litVars, ordVars, pureVars>>

\* A worker that leaves its loop when scan_file fails.
ReceivedFatal(w, entry) ==
    IF entry.file = Unreadable
    THEN /\ pool' = Some([pool[1] EXCEPT !.queue = Tail(@),
                                         !.received = Append(@, entry),
                                         !.workers[w].state = "exited"])
         /\ stderr' = stderr \cup {Line("Cannot scan file", entry.path)}
    ELSE /\ pool' = Some([pool[1] EXCEPT
                             !.queue = Tail(@),
                             !.received = Append(@, entry),
                             !.workers[w].state = "scanning",
                             !.workers[w].path = entry.path,
                             !.workers[w].local = ScanLocal(entry.file[1])])
         /\ UNCHANGED stderr

\* A receive that leaves the path in the channel.
ReceivedKept(w, entry) ==
    IF entry.file = Unreadable
    THEN /\ pool' = Some([pool[1] EXCEPT !.received = Append(@, entry)])
         /\ stderr' = stderr \cup {Line("Cannot scan file", entry.path)}
    ELSE /\ pool' = Some([pool[1] EXCEPT
                             !.received = Append(@, entry),
                             !.workers[w].state = "scanning",
                             !.workers[w].path = entry.path,
                             !.workers[w].local = ScanLocal(entry.file[1])])
         /\ UNCHANGED stderr

\* The worker that received a path: scan_file fails on a file that cannot be
\* read, the error is printed and the worker waits again; otherwise scan_mem
\* starts on the bytes of the file.
Received(w, entry) ==
    IF entry.file = Unreadable
    THEN /\ pool' = Some([pool[1] EXCEPT !.queue = Tail(@),
                                         !.received = Append(@, entry)])
         /\ stderr' = stderr \cup {Line("Cannot scan file", entry.path)}
    ELSE /\ pool' = Some([pool[1] EXCEPT
                             !.queue = Tail(@),
                             !.received = Append(@, entry),
                             !.workers[w].state = "scanning",
                             !.workers[w].path = entry.path,
                             !.workers[w].local = ScanLocal(entry.file[1])])
         /\ UNCHANGED stderr

\* while let Ok(path) = receiver.recv(): the worker takes a path.
recv ==
    /\ pool # None
    /\ \E w \in 1..Len(pool[1].workers) :
          /\ pool[1].workers[w].state = "recv"
          /\ pool[1].queue # << >>
          /\ Received(w, Head(pool[1].queue))
    /\ UNCHANGED <<cli, done, exit_code, acVars, evVars, ruleVars, litVars, ordVars, pureVars>>

\* receiver.recv() fails once the channel is empty and the sender dropped.
worker_exit ==
    /\ pool # None
    /\ \E w \in 1..Len(pool[1].workers) :
          /\ pool[1].workers[w].state = "recv"
          /\ pool[1].queue = << >>
          /\ ~pool[1].sender
          /\ pool' = Some([pool[1] EXCEPT !.workers[w].state = "exited"])
    /\ UNCHANGED <<cli, done, stderr, exit_code, acVars, evVars, ruleVars, litVars, ordVars, pureVars>>

\* The worker of a step of scan_mem, once the step is computed.
Scanned(w, r) ==
    pool' = Some([pool[1] EXCEPT !.workers[w].scanner = r.scanner,
                                 !.workers[w].local = r.local])

\* scan_mem in a worker: the next rule is evaluated.
scan_step ==
    /\ pool # None
    /\ \E w \in 1..Len(pool[1].workers) :
          /\ pool[1].workers[w].state = "scanning"
          /\ pool[1].workers[w].local.i <= Len(pool[1].workers[w].scanner.rules)
          /\ Scanned(w, scan_rule(pool[1].workers[w].scanner, pool[1].workers[w].local,
                                  evaluate_rule(pool[1].workers[w].scanner.rules[
                                                    pool[1].workers[w].local.i],
                                                pool[1].workers[w].local.mem,
                                                pool[1].workers[w].local.previous_results)))
    /\ UNCHANGED <<cli, done, stderr, exit_code, acVars, evVars, ruleVars, litVars, ordVars, pureVars>>

\* scan_mem returns in a worker, which prints the matched rules.
scan_return ==
    /\ pool # None
    /\ \E w \in 1..Len(pool[1].workers) :
          /\ pool[1].workers[w].state = "scanning"
          /\ pool[1].workers[w].local.i > Len(pool[1].workers[w].scanner.rules)
          /\ done' = done \cup {[path |-> pool[1].workers[w].path,
                                  mem |-> pool[1].workers[w].local.mem,
                                  matched_rules |-> pool[1].workers[w].local.matched_rules]}
          /\ pool' = Some([pool[1] EXCEPT !.workers[w].state = "recv"])
    /\ UNCHANGED <<cli, stderr, exit_code, acVars, evVars, ruleVars, litVars, ordVars, pureVars>>

\* thread_pool.join(), then main returns ExitCode::SUCCESS.
join ==
    /\ pool # None
    /\ ~pool[1].sender
    /\ ~pool[1].joined
    /\ exit_code = None
    /\ \A w \in 1..Len(pool[1].workers) : pool[1].workers[w].state = "exited"
    /\ pool' = Some([pool[1] EXCEPT !.joined = TRUE])
    /\ exit_code' = Some(ExitSuccess)
    /\ UNCHANGED <<cli, done, stderr, acVars, evVars, ruleVars, litVars, ordVars, pureVars>>

\* The rules files:
\*   rule b { strings: .. condition: any of them } rule ab { condition: b }
\*   global rule a { .. } rule b { strings: .. condition: any of them }
\*   rule a { condition: true } rule a { condition: true }
RulesFiles ==
    { Source(TRUE, << RuleBThem, RuleAbRef >>),
      Source(TRUE, << GlobalA, RuleBThem >>),
      Source(TRUE, << RuleA, RuleA >>) }

InitPool ==
    /\ acIdle
    /\ evIdle
    /\ rulesIdle
    /\ pureIdle
    /\ litIdle
    /\ ordIdle
    /\ cli \in [rules_file : RulesFiles,
                 scanner : {None},
                 threads : {None} \cup {Some(n) : n \in 0..MaxThreads},
                 cpus : 1..MaxCpus,
                 input : {Directory} \cup {InputFile(f) : f \in Files}]
    /\ pool = None
    /\ done = {}
    /\ stderr = {}
    /\ exit_code = None

NextPool ==
    \/ add_rules_file
    \/ scan_input_file
    \/ new_pool
    \/ walk_error
    \/ send
    \/ send_disconnected
    \/ drop_sender
    \/ recv
    \/ worker_exit
    \/ scan_step
    \/ scan_return
    \/ join

SpecPool == InitPool /\ [][NextPool]_vars

\* The threads of the directory scan are scheduled: a worker that can take a
\* path, scan a rule, return from scan_mem or leave its loop does, and the
\* main thread returns from join once the workers are finished.
SpecPoolFair ==
    /\ InitPool
    /\ [][NextPool]_vars
    /\ WF_vars(recv)
    /\ WF_vars(worker_exit)
    /\ WF_vars(scan_step)
    /\ WF_vars(scan_return)
    /\ WF_vars(join)

(***************************************************************************)
(* Part VI.  Pure functions.                                               *)
(*                                                                         *)
(* The hex string parser (boreal-parser/src/hex_string.rs).  A hex string  *)
(* is given as the list of the tokens written between the braces; a token  *)
(* is a record [t, from, to, dash, branches].                              *)
(***************************************************************************)
\* Longest list of tokens of a hex string.
MaxTokens == 3

\* The limit of a jump inside an alternation.
JUMP_LIMIT_IN_ALTERNATIVES == 200

\* The numbers written in jumps.
JumpNumbers == {0, 1, 2}

\* Tokens as written: `AB`, `??`.
WrittenByte == [t |-> "Byte", from |-> None, to |-> None, dash |-> FALSE, branches |-> << >>]

WrittenMasked ==
    [t |-> "MaskedByte", from |-> None, to |-> None, dash |-> FALSE, branches |-> << >>]

\* A jump as written: `[a-b]`, `[a-]`, `[-b]`, `[-]` have a dash and optional
\* numbers, `[a]` has one number and no dash.
WrittenJump(from, to, dash) ==
    [t |-> "Range", from |-> from, to |-> to, dash |-> dash, branches |-> << >>]

\* `( .. | .. )`
WrittenAlternatives(branches) ==
    [t |-> "Alternatives", from |-> None, to |-> None, dash |-> FALSE, branches |-> branches]

\* enum HexToken
HexByte == [t |-> "Byte", from |-> 0, to |-> None, branches |-> << >>]

HexMaskedByte == [t |-> "MaskedByte", from |-> 0, to |-> None, branches |-> << >>]

HexJump(jump) == [t |-> "Jump", from |-> jump.from, to |-> jump.to, branches |-> << >>]

HexAlternatives(branches) ==
    [t |-> "Alternatives", from |-> 0, to |-> None, branches |-> branches]

\* ParseResult: the value parsed, or the kind of the error.
Parsed(v) == [ok |-> TRUE, v |-> v, kind |-> "Ok"]

Failure(kind) == [ok |-> FALSE, v |-> << >>, kind |-> kind]

\* struct Jump
Jump(from, to) == [from |-> from, to |-> to]

\* validate_jump
validate_jump(range) ==
    IF range.to # None /\ range.from = 0 /\ range.to[1] = 0 THEN Failure("JumpEmpty")
    ELSE IF range.to # None /\ range.from > range.to[1] THEN Failure("JumpRangeInvalid")
    ELSE Parsed(range)

\* range: the jump of `[a?-b?]` or of `[a]`, validated.
range(written) ==
    IF written.dash
    THEN validate_jump(Jump(IF written.from = None THEN 0 ELSE written.from[1], written.to))
    ELSE validate_jump(Jump(written.from[1], written.from))

\* validate_jump_in_alternatives
validate_jump_in_alternatives(jump) ==
    IF jump.to = None THEN Failure("JumpUnboundedInAlternation")
    ELSE IF jump.to[1] > JUMP_LIMIT_IN_ALTERNATIVES THEN Failure("JumpTooBigInAlternation")
    ELSE Parsed(jump)

\* range_as_hex_token, once range returned: a jump of one is equivalent to ??.
JumpAsHexToken(parsed, in_alternatives) ==
    IF ~parsed.ok THEN parsed
    ELSE IF in_alternatives /\ ~validate_jump_in_alternatives(parsed.v).ok
    THEN validate_jump_in_alternatives(parsed.v)
    ELSE IF parsed.v.to # None /\ parsed.v.from = parsed.v.to[1] /\ parsed.v.from = 1
    THEN Parsed(HexMaskedByte)
    ELSE Parsed(HexJump(parsed.v))

\* range_as_hex_token
range_as_hex_token(written, in_alternatives) == JumpAsHexToken(range(written), in_alternatives)

\* tokens, once many1 returned: a jump is not allowed at the beginning or at
\* the end of the list.
JumpAtBound(parsed) ==
    IF ~parsed.ok THEN parsed
    ELSE IF \/ parsed.v[1].t = "Jump"
            \/ Len(parsed.v) > 1 /\ parsed.v[Len(parsed.v)].t = "Jump"
    THEN Failure("JumpAtBound")
    ELSE parsed

RECURSIVE tokens(_, _)
RECURSIVE many1(_, _, _, _)
RECURSIVE separated_list1(_, _, _)
\* alternatives: separated_list1 of the branches, each parsed by tokens.
separated_list1(branches, i, acc) ==
    IF i > Len(branches) THEN Parsed(HexAlternatives(acc))
    ELSE LET branch == tokens(branches[i], TRUE)
         IN IF ~branch.ok THEN branch
            ELSE separated_list1(branches, i + 1, Append(acc, branch.v))

alternatives(written) == separated_list1(written.branches, 1, << >>)

\* hex_token
hex_token(written, in_alternatives) ==
    CASE written.t = "MaskedByte" -> Parsed(HexMaskedByte)
      [] written.t = "Byte" -> Parsed(HexByte)
      [] written.t = "Range" -> range_as_hex_token(written, in_alternatives)
      [] written.t = "Alternatives" -> alternatives(written)

\* many1(hex_token): the tokens one after the other; a failure ends the parse.
many1(written, in_alternatives, i, acc) ==
    IF i > Len(written) THEN Parsed(acc)
    ELSE LET token == hex_token(written[i], in_alternatives)
         IN IF ~token.ok THEN token
            ELSE many1(written, in_alternatives, i + 1, Append(acc, token.v))

\* tokens
tokens(written, in_alternatives) == JumpAtBound(many1(written, in_alternatives, 1, << >>))

\* hex_string
hex_string(written) == tokens(written, FALSE)

\* The jumps written: [a-b], [a-], [-b], [-], [a].
WrittenJumps ==
    {WrittenJump(Some(a), Some(b), TRUE) : a \in JumpNumbers, b \in JumpNumbers}
        \cup {WrittenJump(Some(a), None, TRUE) : a \in JumpNumbers}
        \cup {WrittenJump(None, Some(b), TRUE) : b \in JumpNumbers}
        \cup {WrittenJump(None, None, TRUE)}
        \cup {WrittenJump(Some(a), None, FALSE) : a \in JumpNumbers}

\* The tokens other than alternations.
PlainTokens == {WrittenByte, WrittenMasked} \cup WrittenJumps

\* The lists of at most n plain tokens.
PlainLists(n) == UNION {[1..k -> PlainTokens] : k \in 1..n}

\* The hex strings: the lists of plain tokens, `{ ( AB | .. ) }` and
\* `{ ( .. | AB ) }`.
HexStrings ==
    PlainLists(MaxTokens)
        \cup {<< WrittenAlternatives(<< << WrittenByte >>, b >>) >> : b \in PlainLists(MaxTokens - 1)}
        \cup {<< WrittenAlternatives(<< b, << WrittenByte >> >>) >> : b \in PlainLists(MaxTokens - 1)}

\* hex_string on a string
parse_hex_string ==
    /\ hex.result = None
    /\ hex' = [hex EXCEPT !.result = Some(hex_string(hex.source))]
    /\ UNCHANGED <<module_expr, serial, acVars, evVars, ruleVars, litVars, ordVars, poolVars>>

InitHex ==
    /\ acIdle
    /\ evIdle
    /\ rulesIdle
    /\ litIdle
    /\ ordIdle
    /\ poolIdle
    /\ exprIdle
    /\ serialIdle
    /\ hex \in [source : HexStrings, result : {None}]

NextHex == parse_hex_string

SpecHex == InitHex /\ [][NextHex]_vars

(***************************************************************************)
(* The evaluation of module expressions (boreal/src/evaluator/module.rs).  *)
(* The module values are the nodes of one tree, named by strings; a node   *)
(* is a record [t, fields, items, entries, returns].                       *)
(***************************************************************************)
\* Longest chain of operations of a module expression.
MaxOps == 3

\* enum ModuleValue (boreal::module::Value)
ValueInteger == [t |-> "Integer", fields |-> EmptyMap, items |-> << >>, entries |-> EmptyMap,
                 returns |-> None]

ValueObject(fields) ==
    [t |-> "Object", fields |-> fields, items |-> << >>, entries |-> EmptyMap, returns |-> None]

ValueArray(items) ==
    [t |-> "Array", fields |-> EmptyMap, items |-> items, entries |-> EmptyMap, returns |-> None]

ValueDictionary(entries) ==
    [t |-> "Dictionary", fields |-> EmptyMap, items |-> << >>, entries |-> entries,
     returns |-> None]

\* A function, with what it returns: None, or Some value.
ValueFunction(returns) ==
    [t |-> "Function", fields |-> EmptyMap, items |-> << >>, entries |-> EmptyMap,
     returns |-> returns]

\* The values of the scan:
\*   root = { arr: [1, obj], dict: { "k": obj }, f: fn -> Some(obj), g: fn -> None }
\*   obj  = { arr: [1, obj], f: fn -> Some(obj) }
ModuleValues ==
    [id \in {"root", "int", "arr", "obj", "dict", "f", "g"} |->
        CASE id = "root" -> ValueObject([name \in {"arr", "dict", "f", "g"} |-> name])
          [] id = "int" -> ValueInteger
          [] id = "arr" -> ValueArray(<< "int", "obj" >>)
          [] id = "obj" -> ValueObject([name \in {"arr", "f"} |-> name])
          [] id = "dict" -> ValueDictionary([key \in {"k"} |-> "obj"])
          [] id = "f" -> ValueFunction(Some("obj"))
          [] id = "g" -> ValueFunction(None)]

\* evaluator.scan_data.module_values and evaluator.bounded_identifiers_stack
module_values == << "root" >>

bounded_identifiers_stack == << "arr" >>

\* Result<ModuleValue, PoisonKind>
EvalOk(id) == [ok |-> TRUE, v |-> id, kind |-> "Ok"]

Poison(kind) == [ok |-> FALSE, v |-> "", kind |-> kind]

\* What evaluator.evaluate_expr made of a subscript or of an argument: an
\* integer, bytes, or the poison of an expression that is undefined.
ExprInteger(n) == [ok |-> TRUE, t |-> "Integer", n |-> n, k |-> "", kind |-> "Ok"]

ExprBytes(k) == [ok |-> TRUE, t |-> "Bytes", n |-> 0, k |-> k, kind |-> "Ok"]

ExprPoison == [ok |-> FALSE, t |-> "", n |-> 0, k |-> "", kind |-> "Undefined"]

\* enum ValueOperation
Subfield(name) == [op |-> "Subfield", name |-> name, sub |-> ExprPoison, args |-> << >>]

Subscript(sub) == [op |-> "Subscript", name |-> "", sub |-> sub, args |-> << >>]

FunctionCall(args) == [op |-> "FunctionCall", name |-> "", sub |-> ExprPoison, args |-> args]

\* enum ModuleExpression, enum BoundedValueIndex
BoundedModuleValueUse(index_kind, index, operations) ==
    [kind |-> index_kind, index |-> index, fun |-> "", arguments |-> << >>,
     operations |-> operations]

ModuleFunction(fun, arguments, operations) ==
    [kind |-> "Function", index |-> 0, fun |-> fun, arguments |-> arguments,
     operations |-> operations]

\* Value::unwrap_number and Value::unwrap_bytes
unwrap_number(value) == IF value.t = "Integer" THEN Some(value.n) ELSE None

unwrap_bytes(value) == IF value.t = "Bytes" THEN Some(value.k) ELSE None

\* eval_array_op
eval_array_op(subscript, array) ==
    IF ~subscript.ok THEN Poison(subscript.kind)
    ELSE IF unwrap_number(subscript) = None THEN Poison("Undefined")
    ELSE IF unwrap_number(subscript)[1] < 0 THEN Poison("Undefined")
    ELSE IF unwrap_number(subscript)[1] >= Len(array) THEN Poison("Undefined")
    ELSE EvalOk(array[unwrap_number(subscript)[1] + 1])

\* eval_dict_op
eval_dict_op(subscript, dict) ==
    IF ~subscript.ok THEN Poison(subscript.kind)
    ELSE IF unwrap_bytes(subscript) = None THEN Poison("Undefined")
    ELSE IF unwrap_bytes(subscript)[1] \notin DOMAIN dict THEN Poison("Undefined")
    ELSE EvalOk(dict[unwrap_bytes(subscript)[1]])

\* The arguments, collected into a Result: the first poison, if any.
CollectArguments(arguments) ==
    IF \E i \in 1..Len(arguments) : ~arguments[i].ok
    THEN Poison(arguments[CHOOSE i \in 1..Len(arguments) :
                              /\ ~arguments[i].ok
                              /\ \A j \in 1..(i - 1) : arguments[j].ok].kind)
    ELSE EvalOk("")

\* eval_function_op, and the call of evaluate_ops: the function is called with
\* the arguments; None is undefined.
CallFunction(fun, arguments) ==
    IF ~CollectArguments(arguments).ok THEN CollectArguments(arguments)
    ELSE IF fun.returns = None THEN Poison("Undefined")
    ELSE EvalOk(fun.returns[1])

RECURSIVE evaluate_ops(_, _)
\* The rest of evaluate_ops once the operation gave a value or a poison.
Continue(reached, operations) ==
    IF ~reached.ok THEN reached ELSE evaluate_ops(reached.v, operations)

\* An evaluation that returns what the function returned.
ReturnCalled(reached, operations) == reached

\* evaluate_ops, ValueOperation::FunctionCall on a function:
\* return evaluate_ops(evaluator, &new_value, operations)
ContinueCalled(reached, operations) ==
    IF ~reached.ok THEN reached ELSE evaluate_ops(reached.v, operations)

\* evaluate_ops
evaluate_ops(value, operations) ==
    IF operations = << >> THEN EvalOk(value)
    ELSE CASE Head(operations).op = "Subfield" ->
                 IF ModuleValues[value].t # "Object" THEN Poison("Undefined")
                 ELSE IF Head(operations).name \notin DOMAIN ModuleValues[value].fields
                 THEN Poison("Undefined")
                 ELSE Continue(EvalOk(ModuleValues[value].fields[Head(operations).name]),
                               Tail(operations))
           [] Head(operations).op = "Subscript" ->
                 CASE ModuleValues[value].t = "Array" ->
                          Continue(eval_array_op(Head(operations).sub, ModuleValues[value].items),
                                   Tail(operations))
                   [] ModuleValues[value].t = "Dictionary" ->
                          Continue(eval_dict_op(Head(operations).sub,
                                                ModuleValues[value].entries),
                                   Tail(operations))
                   [] OTHER -> Poison("Undefined")
           [] Head(operations).op = "FunctionCall" ->
                 IF ModuleValues[value].t # "Function" THEN Poison("Undefined")
                 ELSE ContinueCalled(CallFunction(ModuleValues[value], Head(operations).args),
                                     Tail(operations))

\* evaluate_expr
evaluate_expr(expr) ==
    CASE expr.kind = "Module" ->
             IF expr.index >= Len(module_values) THEN Poison("Undefined")
             ELSE evaluate_ops(module_values[expr.index + 1], expr.operations)
      [] expr.kind = "BoundedStack" ->
             IF expr.index >= Len(bounded_identifiers_stack) THEN Poison("Undefined")
             ELSE evaluate_ops(bounded_identifiers_stack[expr.index + 1], expr.operations)
      [] expr.kind = "Function" ->
             Continue(CallFunction(ModuleValues[expr.fun], expr.arguments), expr.operations)

\* The operations of the expressions.
Operations ==
    {Subfield(name) : name \in {"arr", "dict", "f", "g", "zz"}}
        \cup {Subscript(ExprInteger(n)) : n \in {-1, 0, 1, 2}}
        \cup {Subscript(ExprBytes(k)) : k \in {"k", "z"}}
        \cup {Subscript(ExprPoison)}
        \cup {FunctionCall(<< >>), FunctionCall(<< ExprInteger(0), ExprPoison >>)}

OperationChains == UNION {[1..n -> Operations] : n \in 0..MaxOps}

\* The expressions: a module value or a bounded identifier, in and out of
\* range, and the functions f and g called directly; each of them is a
\* BoundedModuleValueUse or a ModuleFunction.
ModuleExpressions ==
    {e \in [kind : {"Module", "BoundedStack", "Function"}, index : {0, 1},
            fun : {"", "f", "g"}, arguments : {<< >>}, operations : OperationChains] :
         IF e.kind = "Function"
         THEN e = ModuleFunction(e.fun, e.arguments, e.operations) /\ e.fun # ""
         ELSE e = BoundedModuleValueUse(e.kind, e.index, e.operations)}

\* evaluate_expr on an expression
evaluate_module_expr ==
    /\ module_expr.result = None
    /\ module_expr' = [module_expr EXCEPT !.result = Some(evaluate_expr(module_expr.expr[1]))]
    /\ UNCHANGED <<hex, serial, acVars, evVars, ruleVars, litVars, ordVars, poolVars>>

InitModuleExpr ==
    /\ acIdle
    /\ evIdle
    /\ rulesIdle
    /\ litIdle
    /\ ordIdle
    /\ poolIdle
    /\ hexIdle
    /\ serialIdle
    /\ \E e \in ModuleExpressions : module_expr = [expr |-> Some(e), result |-> None]

NextModuleExpr == evaluate_module_expr

SpecModuleExpr == InitModuleExpr /\ [][NextModuleExpr]_vars

(***************************************************************************)
(* The serial correlation of the math module                               *)
(* (boreal/src/module/math.rs).  The sums are sums of integers, which f64  *)
(* holds exactly at these sizes; the quotient returned is kept as its      *)
(* numerator and its denominator.                                          *)
(***************************************************************************)
\* Longest input of compute_serial_correlation.
MaxBytes == 3

\* The bytes of the inputs: products of two of them below and above 255.
SerialAlphabet == {0, 1, 16, 255}

SerialInputs == UNION {[1..n -> SerialAlphabet] : n \in 0..MaxBytes}

\* What the call gives: the f64 returned, with the sum scct1 it was computed
\* from, or the panic of an arithmetic overflow.
SerialValue(scct1, num, den) == [panicked |-> FALSE, scct1 |-> scct1, num |-> num, den |-> den]

SerialPanic == [panicked |-> TRUE, scct1 |-> 0, num |-> 0, den |-> 1]

RECURSIVE SerialSums(_, _, _, _, _, _)
\* for c in bytes { scct1 += prev * c; scct2 += c; scct3 += c * c; prev = c; }
SerialSums(bytes, i, scct1, scct2, scct3, prev) ==
    IF i > Len(bytes) THEN [scct1 |-> scct1, scct2 |-> scct2, scct3 |-> scct3]
    ELSE SerialSums(bytes, i + 1, scct1 + prev * bytes[i], scct2 + bytes[i],
                    scct3 + bytes[i] * bytes[i], bytes[i])

\* bytes[0] * bytes[bytes.len() - 1]: a product of two u8 in u8. When it does
\* not fit, the build with overflow checks panics and the build without them
\* keeps the low 8 bits.
MulU8(a, b, overflow_checks) ==
    IF a * b < 256 THEN Some(a * b)
    ELSE IF overflow_checks THEN None
    ELSE Some((a * b) % 256)

\* compute_serial_correlation, after the loop: the term that closes the sum,
\* then the quotient, -100000 when its denominator is 0.
SerialQuotient(n, sums, closing) ==
    IF closing = None THEN SerialPanic
    ELSE IF n * sums.scct3 - sums.scct2 * sums.scct2 = 0
    THEN SerialValue(sums.scct1 + closing[1], -100000, 1)
    ELSE SerialValue(sums.scct1 + closing[1],
                     n * (sums.scct1 + closing[1]) - sums.scct2 * sums.scct2,
                     n * sums.scct3 - sums.scct2 * sums.scct2)

\* compute_serial_correlation
compute_serial_correlation(bytes, overflow_checks) ==
    SerialQuotient(Len(bytes), SerialSums(bytes, 1, 0, 0, 0, 0),
                   IF bytes # << >>
                   THEN MulU8(bytes[1], bytes[Len(bytes)], overflow_checks)
                   ELSE Some(0))

\* compute_serial_correlation on the bytes, in a build with or without
\* overflow checks.
serial_correlation ==
    /\ serial.result = None
    /\ \E overflow_checks \in BOOLEAN :
          serial' = [serial EXCEPT
                        !.result = Some(compute_serial_correlation(serial.bytes,
                                                                   overflow_checks))]
    /\ UNCHANGED <<hex, module_expr, acVars, evVars, ruleVars, litVars, ordVars, poolVars>>

InitMath ==
    /\ acIdle
    /\ evIdle
    /\ rulesIdle
    /\ litIdle
    /\ ordIdle
    /\ poolIdle
    /\ hexIdle
    /\ exprIdle
    /\ serial \in [bytes : SerialInputs, result : {None}]

NextMath == serial_correlation

SpecMath == InitMath /\ [][NextMath]_vars

(***************************************************************************)
(* Properties of the Aho-Corasick pass.                                    *)
(***************************************************************************)
VarIndexes == 1..Len(variables)

MatchList(vi) == matches[vi].v

\* Whether literal literal_index of a plain string variable is a wide literal:
\* compile_bytes pushes string_to_wide(value) before value, and xor expands
\* each literal in place.
IsWideLiteral(var, literal_index) ==
    /\ var.flags.WIDE
    /\ var.flags.ASCII => (2 * literal_index) < Len(var.literals)

\* C1: after the Aho-Corasick pass, no variable has two matches with the same
\* start offset.
C1_NoTwoMatchesShareStart ==
    acState = "done" =>
        \A vi \in VarIndexes : \A i, j \in 1..Len(MatchList(vi)) :
            i # j => MatchList(vi)[i].start # MatchList(vi)[j].start

\* C2: after the Aho-Corasick pass, the matches of every variable are in
\* strictly increasing order of their start offsets.
C2_StrictlyIncreasingStarts ==
    acState = "done" =>
        \A vi \in VarIndexes : \A i \in 1..(Len(MatchList(vi)) - 1) :
            MatchList(vi)[i].start < MatchList(vi)[i + 1].start

\* C2, without the equal starts: after the Aho-Corasick pass, the start
\* offsets of the matches of every variable never decrease.
C2_StartsNeverDecrease ==
    acState = "done" =>
        \A vi \in VarIndexes : \A i \in 1..(Len(MatchList(vi)) - 1) :
            MatchList(vi)[i].start <= MatchList(vi)[i + 1].start

\* C3: every recorded match [s, e) has 0 <= s < e <= len(input); a hit is
\* discarded before confirmation exactly when its re-expanded span underflows
\* or ends past the input; no step fails on an out-of-range slice.
C3_AcSpansInsideInput ==
    /\ acState # "panicked"
    /\ \A vi \in VarIndexes : \A i \in 1..Len(MatchList(vi)) :
          /\ 0 <= MatchList(vi)[i].start
          /\ MatchList(vi)[i].start < MatchList(vi)[i].end
          /\ MatchList(vi)[i].end <= Len(mem)
    /\ event.kind \in {"discarded", "unconfirmed", "processed"} =>
          (event.kind = "discarded" <=>
              \/ event.hit.start < event.info.slice_offset[1]
              \/ event.hit.end + event.info.slice_offset[2] > Len(mem))

\* C3 witness: a hit on the 4-byte slice of a longer literal was re-expanded
\* and its span recorded as a match.
C3_AcReExpanded ==
    /\ event.kind = "processed"
    /\ event.info.slice_offset # <<0, 0>>
    /\ \E i \in 1..Len(MatchList(event.info.variable_index + 1)) :
          /\ MatchList(event.info.variable_index + 1)[i].start
                = event.hit.start - event.info.slice_offset[1]
          /\ MatchList(event.info.variable_index + 1)[i].end
                = event.hit.end + event.info.slice_offset[2]

\* C3, second case: a hit was discarded because its span leaves the input.
C3_AcDiscarded == event.kind = "discarded"

\* C4: every match of a Literals variable is byte-equal to the literal whose
\* hit gave it, or equal up to ASCII case when the variable is nocase.
C4_LiteralMatchesEqualLiteral ==
    \A vi \in VarIndexes :
        variables[vi].matcher_type.kind = "Literals" =>
            \A i \in 1..Len(MatchList(vi)) :
                LET m == MatchList(vi)[i]
                    literal == variables[vi].literals[origin[vi][i] + 1]
                    bytes == Slice(mem, m.start, m.end)
                IN IF variables[vi].flags.NOCASE
                   THEN eq_ignore_ascii_case(literal, bytes)
                   ELSE literal = bytes

\* C4 witness: the case-insensitive automaton hit a variable without nocase on
\* bytes that differ from its literal by case and the hit was dropped, while a
\* nocase variable kept a match that differs from its literal by case.
C4_Witness ==
    /\ event.kind = "unconfirmed"
    /\ ~variables[event.info.variable_index + 1].flags.NOCASE
    /\ eq_ignore_ascii_case(
          variables[event.info.variable_index + 1].literals[event.info.literal_index + 1],
          Slice(mem, event.hit.start - event.info.slice_offset[1],
                event.hit.end + event.info.slice_offset[2]))
    /\ \E vi \in VarIndexes :
          /\ variables[vi].flags.NOCASE
          /\ \E i \in 1..Len(MatchList(vi)) :
                variables[vi].literals[origin[vi][i] + 1]
                    # Slice(mem, MatchList(vi)[i].start, MatchList(vi)[i].end)

\* C5: a match of a fullword variable on an ascii literal has no ASCII
\* alphanumeric right before or right after it; a match on a wide literal has
\* no (alphanumeric, NUL) pair right before or right after it.  The variables
\* are the plain strings that are ascii, wide or both, without xor.
C5_FullwordBoundaries ==
    \A vi \in VarIndexes :
        (/\ variables[vi].flags.FULLWORD
         /\ ~variables[vi].flags.XOR
         /\ variables[vi].matcher_type.kind = "Literals") =>
            \A i \in 1..Len(MatchList(vi)) :
                LET s == MatchList(vi)[i].start
                    e == MatchList(vi)[i].end
                IN IF IsWideLiteral(variables[vi], origin[vi][i])
                   THEN /\ ~(s >= 2 /\ is_ascii_alnum(At(mem, s - 2)) /\ At(mem, s - 1) = 0)
                        /\ ~(e + 1 < Len(mem) /\ is_ascii_alnum(At(mem, e)) /\ At(mem, e + 1) = 0)
                   ELSE /\ ~(s > 0 /\ is_ascii_alnum(At(mem, s - 1)))
                        /\ ~(e < Len(mem) /\ is_ascii_alnum(At(mem, e)))

(***************************************************************************)
(* Properties of the cursor.                                               *)
(***************************************************************************)
\* C3: every match [s, e) recorded for a variable has 0 <= s < e <= len(input),
\* here for the matches a cursor records.
C3_RecordedSpansNotEmpty ==
    \A i \in 1..Len(ev.matches) :
        /\ 0 <= ev.matches[i].start
        /\ ev.matches[i].start < ev.matches[i].end
        /\ ev.matches[i].end <= Len(ev_mem)

(***************************************************************************)
(* Properties of the compiler and of the scanner.                          *)
(***************************************************************************)
\* The rules of a compiler, the ordinary ones then the global ones.
AllRules(c) == c.rules \o c.global_rules

\* The names of the rules registered in a namespace.
RegisteredNames(c, namespace) ==
    {AllRules(c)[i].name :
        i \in {j \in 1..Len(AllRules(c)) : AllRules(c)[j].namespace = namespace}}

\* The wildcard prefixes the rules registered in a namespace refer to.
ReferencedPrefixes(c, namespace) ==
    {AllRules(c)[i].condition.name :
        i \in {j \in 1..Len(AllRules(c)) :
                  /\ AllRules(c)[j].namespace = namespace
                  /\ AllRules(c)[j].condition.t = "RuleSet"}}

IsPrefixSeq(s, t) == Len(s) <= Len(t) /\ SubSeq(t, 1, Len(s)) = s

\* new maps every key of old to the value old gives it.
IndexExtended(old, new) == \A n \in DOMAIN old : n \in DOMAIN new /\ new[n] = old[n]

RECURSIVE RuleNamesUpTo(_, _, _)
\* The names of the rule components 1..k of a file that are global (or not),
\* in the order of the file.
RuleNamesUpTo(file, k, is_global) ==
    IF k < 1 THEN << >>
    ELSE RuleNamesUpTo(file, k - 1, is_global)
         \o (IF file[k].type = "Rule" /\ file[k].is_global = is_global
             THEN << file[k].name >>
             ELSE << >>)

\* The names of the rules of t after those of s.
NewNames(s, t) == [i \in 1..(Len(t) - Len(s)) |-> t[Len(s) + i].name]

\* A step that adds a source: the file, the namespace, how far the loop went.
AddStep == adds' = adds + 1

File == call'.source.components

Target == call'.namespace

Reached(k) == call'.result.ok \/ call'.result.at >= k

\* The number of rules the step registered.
NewlyRegistered ==
    (Len(compiler'.rules) - Len(compiler.rules))
        + (Len(compiler'.global_rules) - Len(compiler.global_rules))

RulesAmong(k) == Cardinality({i \in 1..k : File[i].type = "Rule"})

\* The names registered in the target namespace when component k is processed.
RuleNamesBefore(k) ==
    RegisteredNames(compiler, Target)
        \cup {File[i].name : i \in {j \in 1..(k - 1) : File[j].type = "Rule"}}

IsDuplicate(k) == File[k].type = "Rule" /\ File[k].name \in RuleNamesBefore(k)

\* The prefixes the rules of the target namespace refer to when component k is
\* processed.
PrefixesBefore(k) ==
    ReferencedPrefixes(compiler, Target)
        \cup {File[i].condition.name :
                 i \in {j \in 1..(k - 1) :
                           File[j].type = "Rule" /\ File[j].condition.t = "RuleSet"}}

IsForbiddenAt(k) ==
    /\ File[k].type = "Rule"
    /\ \E p \in PrefixesBefore(k) : starts_with(File[k].name, p)

\* The rule the scanner holds for an entry of matched_rules.
RulesOfEntry(entry) ==
    {j \in 1..Len(scanner[1].rules) :
        /\ scanner[1].rules[j].name = entry.name
        /\ scanner[1].rules[j].namespace = entry.namespace}

\* C6: scan_mem reports no private rule, and lists no private variable in the
\* strings of a rule it reports.
C6_PrivateNeverReported ==
    scan # None =>
        \A i \in 1..Len(scan[1].matched_rules) :
            \A j \in RulesOfEntry(scan[1].matched_rules[i]) :
                /\ ~scanner[1].rules[j].is_private
                /\ \A k \in 1..Len(scan[1].matched_rules[i].matches) :
                      \A v \in 1..Len(scanner[1].rules[j].variables) :
                          scanner[1].rules[j].variables[v].name
                                = scan[1].matched_rules[i].matches[k].name
                             => ~scanner[1].rules[j].variables[v].is_private

\* C6 witness: in one scan a private rule had a true condition, and a reported
\* rule had a private variable with matches.
C6_Witness ==
    /\ scan # None
    /\ \E j \in 1..Len(scanner[1].rules) :
          scanner[1].rules[j].is_private /\ scan[1].previous_results[j]
    /\ \E i \in 1..Len(scan[1].matched_rules) :
          \E j \in RulesOfEntry(scan[1].matched_rules[i]) :
              \E v \in 1..Len(scanner[1].rules[j].variables) :
                  /\ scanner[1].rules[j].variables[v].is_private
                  /\ Occurrences(scanner[1].rules[j].variables[v].byte, scan[1].mem, 0) # << >>

\* C7: if a global rule of a namespace evaluates to false on the input, no rule
\* of that namespace is in matched_rules.
C7_FalseGlobalRuleSilencesNamespace ==
    scan # None =>
        \A g \in 1..Len(compiler.global_rules) :
            ~evaluate_rule(compiler.global_rules[g], scan[1].mem, << >>).res =>
                \A i \in 1..Len(scan[1].matched_rules) :
                    scan[1].matched_rules[i].namespace # compiler.global_rules[g].namespace

\* No two rules of a namespace have the same name.
NamesUniquePerNamespace ==
    \A i, j \in 1..Len(AllRules(compiler)) :
        (/\ i # j
         /\ AllRules(compiler)[i].namespace = AllRules(compiler)[j].namespace)
            => AllRules(compiler)[i].name # AllRules(compiler)[j].name

\* C8 as stated: rule names are unique within each namespace, and a rule whose
\* name is already registered in the target namespace fails with
\* DuplicatedRuleName and is not registered.
C8_DuplicateFailsWithDuplicatedRuleName ==
    /\ []NamesUniquePerNamespace
    /\ [][AddStep =>
            \A k \in 1..Len(File) :
                (Reached(k) /\ IsDuplicate(k)) =>
                    /\ call'.result.at = k
                    /\ call'.result.kind = "DuplicatedRuleName"
                    /\ NewlyRegistered = RulesAmong(k - 1)]_vars

\* C8: rule names are unique within each namespace; a rule whose name is
\* already registered in the target namespace is rejected and not registered,
\* with DuplicatedRuleName unless the wildcard prefix check or the compilation
\* of the rule, which come first, reject it; DuplicatedRuleName is only given
\* for a name registered in the target namespace.
C8_DuplicateIsRejected ==
    /\ []NamesUniquePerNamespace
    /\ [][AddStep =>
            /\ \A k \in 1..Len(File) :
                  (Reached(k) /\ IsDuplicate(k)) =>
                      /\ call'.result.at = k
                      /\ NewlyRegistered = RulesAmong(k - 1)
                      /\ call'.result.kind \in {"DuplicatedRuleName", "MatchOnWildcardRuleSet",
                                                "UnknownIdentifier"}
                      /\ call'.result.kind = "MatchOnWildcardRuleSet" =>
                            IsForbidden(GetNamespace(compiler', Target), File[k].name)
                      /\ call'.result.kind = "UnknownIdentifier" =>
                            /\ File[k].condition.t = "Identifier"
                            /\ File[k].condition.name \notin RuleNamesBefore(k)
            /\ call'.result.kind = "DuplicatedRuleName" => IsDuplicate(call'.result.at)]_vars

\* C8 witness: a name is registered in the default namespace and in another
\* one, and adding it once more was rejected with DuplicatedRuleName.
C8_Witness ==
    /\ call.result.kind = "DuplicatedRuleName"
    /\ call.source.components[call.result.at].name \in RegisteredNames(compiler, None)
    /\ \E n \in DOMAIN compiler.namespaces :
          call.source.components[call.result.at].name \in RegisteredNames(compiler, Some(n))

\* C9: once a rule of a namespace refers to the rule set `prefix*`, a rule
\* whose name starts with prefix added later to that namespace is rejected with
\* MatchOnWildcardRuleSet and not registered; the rules registered before stay,
\* and the rejection only comes from a prefix of the target namespace.
C9_WildcardPrefixRejected ==
    [][AddStep =>
          /\ \A k \in 1..Len(File) :
                (Reached(k) /\ IsForbiddenAt(k)) =>
                    /\ call'.result.at = k
                    /\ call'.result.kind = "MatchOnWildcardRuleSet"
                    /\ NewlyRegistered = RulesAmong(k - 1)
          /\ call'.result.kind = "MatchOnWildcardRuleSet" =>
                IsForbidden(GetNamespace(compiler', Target),
                            File[call'.result.at].name)
          /\ IsPrefixSeq(compiler.rules, compiler'.rules)
          /\ IsPrefixSeq(compiler.global_rules, compiler'.global_rules)]_vars

\* C9 witness: a rule was rejected with MatchOnWildcardRuleSet for a prefix a
\* registered rule of its namespace refers to, and the namespace still holds a
\* rule with that prefix, registered before the reference.
C9_Witness ==
    /\ call.result.kind = "MatchOnWildcardRuleSet"
    /\ \E p \in ReferencedPrefixes(compiler, call.namespace) :
          /\ starts_with(call.source.components[call.result.at].name, p)
          /\ \E n \in RegisteredNames(compiler, call.namespace) : starts_with(n, p)

\* C10: the rule lists and the name index of every namespace are only ever
\* extended; a source that fails registers its rules up to the failing
\* component and nothing after it, a source that succeeds all its rules.
C10_OnlyExtended ==
    [][/\ IsPrefixSeq(compiler.rules, compiler'.rules)
       /\ IsPrefixSeq(compiler.global_rules, compiler'.global_rules)
       /\ IndexExtended(compiler.default_namespace.rules_indexes,
                        compiler'.default_namespace.rules_indexes)
       /\ \A n \in DOMAIN compiler.namespaces :
             /\ n \in DOMAIN compiler'.namespaces
             /\ IndexExtended(compiler.namespaces[n].rules_indexes,
                              compiler'.namespaces[n].rules_indexes)
       /\ AddStep =>
             LET last == IF call'.result.ok THEN Len(File) ELSE call'.result.at - 1
             IN /\ NewNames(compiler.rules, compiler'.rules)
                      = RuleNamesUpTo(File, last, FALSE)
                /\ NewNames(compiler.global_rules, compiler'.global_rules)
                      = RuleNamesUpTo(File, last, TRUE)
                /\ ~call'.result.ok =>
                      /\ call'.result.at <= Len(File)
                      /\ call'.result.at = 0 <=> ~call'.source.parses
       /\ ~AddStep => compiler'.rules = compiler.rules
                      /\ compiler'.global_rules = compiler.global_rules]_vars

\* C10 witness: a source failed on its second component; the rule of its first
\* component is registered after a rule of an earlier source.
C10_Witness ==
    /\ ~call.result.ok
    /\ call.result.at = 2
    /\ call.source.components[1].type = "Rule"
    /\ Len(compiler.rules) >= 2
    /\ compiler.rules[Len(compiler.rules)].name = call.source.components[1].name

\* C11: add_module returns true and registers the module when its name is not
\* available; it returns false and leaves the compiler, the available modules
\* and the location of the module registered under that name unchanged when
\* the name is available already.
C11_AddModuleOnce ==
    [][call'.op = "add_module" =>
          IF call'.module \in DOMAIN compiler.available_modules
          THEN /\ ~call'.result.ok
               /\ compiler' = compiler
          ELSE /\ call'.result.ok
               /\ DOMAIN compiler'.available_modules
                     = DOMAIN compiler.available_modules \cup {call'.module}
               /\ compiler'.available_modules[call'.module].location = LocationModule
               /\ \A n \in DOMAIN compiler.available_modules :
                     compiler'.available_modules[n] = compiler.available_modules[n]
               /\ compiler' = [compiler EXCEPT !.available_modules =
                                                  compiler'.available_modules]]_vars

\* C11 witness: add_module returned false for a module that a namespace has
\* imported, whose location is still its index in the imported modules.
C11_Witness ==
    /\ call.op = "add_module"
    /\ ~call.result.ok
    /\ call.module = ModTests
    /\ compiler.available_modules[ModTests].location.kind = "ImportedIndex"
    /\ compiler.imported_modules[compiler.available_modules[ModTests].location.index + 1]
          = ModTests

\* The namespaces a source can be added to.
AllNamespaces == {None} \cup {Some(n) : n \in NamespaceNames}

\* The names of the modules imported in a namespace.
ImportsOf(c, namespace) ==
    IF namespace = None THEN DOMAIN c.default_namespace.imported_modules
    ELSE IF namespace[1] \in DOMAIN c.namespaces
    THEN DOMAIN c.namespaces[namespace[1]].imported_modules
    ELSE {}

\* The modules imported in the target namespace when component k is processed.
ImportsBefore(k) ==
    ImportsOf(compiler, Target)
        \cup {File[i].name : i \in {j \in 1..(k - 1) : File[j].type = "Import"}}

\* The imports of the file that the loop went through.
ImportsDone ==
    {File[i].name :
        i \in {j \in 1..Len(File) :
                  /\ File[j].type = "Import"
                  /\ call'.result.ok \/ call'.result.at > j}}

\* Component k is a rule whose condition is the name of a module and of no rule.
UsesModule(k) ==
    /\ File[k].type = "Rule"
    /\ File[k].condition.t = "Identifier"
    /\ File[k].condition.name \in {ModTime, ModMath, ModTests}
    /\ ~IsForbiddenAt(k)

\* C12: an import is scoped to the namespace of its source.  An import of a
\* name that is not an available module fails with UnknownImport, any other
\* import succeeds; a rule that uses a module compiles when the module was
\* imported in the target namespace, by an earlier source or earlier in the
\* file, and fails with UnknownIdentifier otherwise, whatever the other
\* namespaces imported; the imports of a namespace are never lost, and a source
\* adds its imports to its target namespace and to no other.
C12_ImportScopedToNamespace ==
    [][/\ \A N \in AllNamespaces : ImportsOf(compiler, N) \subseteq ImportsOf(compiler', N)
       /\ AddStep =>
             /\ \A k \in 1..Len(File) :
                   (call'.source.parses /\ Reached(k)) =>
                      /\ File[k].type = "Import" =>
                            IF File[k].name \in DOMAIN compiler.available_modules
                            THEN call'.result.ok \/ call'.result.at > k
                            ELSE call'.result = Err("UnknownImport", k)
                      /\ UsesModule(k) =>
                            IF File[k].condition.name \in ImportsBefore(k)
                            THEN call'.result.kind # "UnknownIdentifier"
                            ELSE call'.result = Err("UnknownIdentifier", k)
             /\ \A N \in AllNamespaces :
                   ImportsOf(compiler', N)
                      = ImportsOf(compiler, N)
                           \cup (IF N = Target /\ call'.source.parses THEN ImportsDone ELSE {})]_vars

\* C12 witness: "time" is imported in a namespace that holds rule b using it,
\* and the source `rule b { condition: time.now() > 0 }`, without an import,
\* has just failed with UnknownIdentifier in another namespace.
C12_Witness ==
    /\ call.op \in {"add_rules_str", "add_rules_str_in_namespace"}
    /\ call.source = Source(TRUE, << RuleBTime >>)
    /\ call.result = Err("UnknownIdentifier", 1)
    /\ ModTime \notin ImportsOf(compiler, call.namespace)
    /\ \E N \in AllNamespaces \ {call.namespace} :
          /\ ModTime \in ImportsOf(compiler, N)
          /\ \E i \in 1..Len(compiler.rules) :
                /\ compiler.rules[i].namespace = N
                /\ compiler.rules[i].condition = ExprModule(ModTime)

(***************************************************************************)
(* Properties of the cursor queries.                                       *)
(***************************************************************************)
RECURSIVE EagerFrom(_, _, _)
RECURSIVE EagerAfter(_, _, _)
\* The matches of a variable in the whole input, each search starting one
\* byte after the start of the match before.
EagerFrom(var, memory, offset) ==
    IF offset >= Len(memory) THEN << >>
    ELSE EagerAfter(var, memory, find_next_match_at(var, memory, offset))

EagerAfter(var, memory, mat) ==
    IF mat = None THEN << >>
    ELSE << mat[1] >> \o EagerFrom(var, memory, mat[1].start + 1)

\* The complete match list of the variable of the cursor.
CompleteMatches == EagerFrom(ev.var, ev_mem, 0)

\* C13: from any cursor state, count_matches returns the number of matches of
\* the variable in the whole input, and leaves the cursor exhausted, its match
\* list being the complete match list.
C13_CountIsComplete ==
    ev_call.op = "count_matches" =>
        /\ ev_call.value = Len(CompleteMatches)
        /\ ev.matches = CompleteMatches
        /\ ev.next_offset = None

\* C13 witness: count_matches returned the 3 overlapping matches of /a*/ in
\* "aaa" and left the cursor exhausted.
C13_Witness ==
    /\ ev_call.op = "count_matches"
    /\ ev_call.value = 3
    /\ ev.matches = << Range(0, 3), Range(1, 3), Range(2, 3) >>
    /\ ev.next_offset = None

\* The number of matches of the complete list that start in from..to.
StartsIn(complete, from, to) ==
    Cardinality({i \in 1..Len(complete) :
                    from <= complete[i].start /\ complete[i].start <= to})

\* What an eager evaluation answers to a range query.
EagerAnswer(op, args, complete) ==
    CASE op = "count_matches_in" -> StartsIn(complete, args[1], args[2])
      [] op = "find_in" -> StartsIn(complete, args[1], args[2]) # 0
      [] op = "find_at" -> StartsIn(complete, args[1], args[1]) # 0

\* C14: from any cursor state, count_matches_in(from, to) is the number of
\* matches of the complete match list that start in from..to, find_in(from, to)
\* tells whether that number is not zero, find_at(o) tells whether a match
\* starts at o, and the three answer 0 or false when the lower bound is at or
\* beyond the length of the input.
C14_RangeQueriesAgreeWithEager ==
    ev_call.op \in {"count_matches_in", "find_in", "find_at"} =>
        /\ ev_call.value = EagerAnswer(ev_call.op, ev_call.args, CompleteMatches)
        /\ ev_call.args[1] >= Len(ev_mem) =>
              ev_call.value = (IF ev_call.op = "count_matches_in" THEN 0 ELSE FALSE)

\* The range queries agree with the eager evaluation whenever every match of
\* the complete list starts inside the input.
C14_AgreeOnMatchesInsideInput ==
    (/\ ev_call.op \in {"count_matches_in", "find_in", "find_at"}
     /\ \A i \in 1..Len(CompleteMatches) : CompleteMatches[i].start < Len(ev_mem)) =>
        ev_call.value = EagerAnswer(ev_call.op, ev_call.args, CompleteMatches)

\* C15: find on a cursor without a stored match materialises at most one match,
\* the first of the complete list, and returns it; find on a cursor that holds
\* a match returns the first stored match and leaves the cursor, its match list
\* and its next offset, as it was.
C15_FindStopsAtFirstMatch ==
    [][ev_call'.op = "find" =>
          IF ev.matches # << >>
          THEN /\ ev' = ev
               /\ ev_call'.value = Some(ev.matches[1])
          ELSE /\ ev'.var = ev.var
               /\ Len(ev'.matches) <= 1
               /\ ev_call'.value = ev'.matches
               /\ (ev = VariableEvaluation(ev.var) /\ CompleteMatches # << >>) =>
                     ev'.matches = << CompleteMatches[1] >>]_vars

\* C15 witness: find returned the first of the three matches of /a*/ in "aaa"
\* and the cursor holds that match only, the next search starting at offset 1.
C15_Witness ==
    /\ ev_call.op = "find"
    /\ ev_call.value = Some(Range(0, 3))
    /\ ev.matches = << Range(0, 3) >>
    /\ ev.next_offset = Some(1)
    /\ Len(CompleteMatches) = 3

(***************************************************************************)
(* Properties of the literals of a string declaration.                     *)
(***************************************************************************)
\* The literals compile_bytes makes of the bytes value alone: value itself,
\* or value xored with each byte of the xor range.
LiteralsOfBytes(value, modifiers) ==
    IF modifiers.flags.XOR
    THEN {XorLiteral(value, x) : x \in modifiers.xor_range[1]..modifiers.xor_range[2]}
    ELSE {value}

\* C16: the literals of a variable with both ascii and wide hold the ascii
\* literals first and the wide literals second: literal index i is a wide
\* literal exactly when i >= len(literals) / 2, the rule by which
\* confirm_ac_literal tells the type of a match.
C16_AsciiLiteralsFirst ==
    (compiled # None /\ decl.modifiers.flags.ASCII /\ decl.modifiers.flags.WIDE) =>
        \A i \in 0..(Len(compiled[1].literals) - 1) :
            match_type_is_wide(compiled[1].flags, compiled[1].literals, i)
                <=> compiled[1].literals[i + 1]
                       \in LiteralsOfBytes(string_to_wide(decl.value), decl.modifiers)

\* The layout compile_bytes gives: the wide literals first, the ascii literals
\* second, for plain strings and for strings expanded by xor.
C16_WideLiteralsFirst ==
    (compiled # None /\ decl.modifiers.flags.ASCII /\ decl.modifiers.flags.WIDE) =>
        \A i \in 0..(Len(compiled[1].literals) - 1) :
            /\ i < Len(compiled[1].literals) \div 2
                  <=> compiled[1].literals[i + 1]
                         \in LiteralsOfBytes(string_to_wide(decl.value), decl.modifiers)
            /\ i >= Len(compiled[1].literals) \div 2
                  <=> compiled[1].literals[i + 1]
                         \in LiteralsOfBytes(decl.value, decl.modifiers)

\* The bytes the i-th widening was applied to.
WidenedFrom(i) == IF i = 1 THEN decl.value ELSE widened[i - 1]

\* C17 as stated: widening is idempotent,
\* string_to_wide(string_to_wide(x)) = string_to_wide(x) for every ASCII x.
C17_WideningIsIdempotent ==
    Len(widened) >= 2 => widened[2] = widened[1]

\* C17, amended: string_to_wide(x) is x with a NUL after each byte, twice as
\* long as x, and un-widening gives x back; widening the widened string gives
\* the widened string again for the empty string only.
C17_WideningDoublesLength ==
    /\ \A i \in 1..Len(widened) :
          /\ Len(widened[i]) = 2 * Len(WidenedFrom(i))
          /\ \A j \in 1..Len(WidenedFrom(i)) :
                widened[i][2 * j - 1] = WidenedFrom(i)[j] /\ widened[i][2 * j] = 0
          /\ unwide(widened[i]) = WidenedFrom(i)
    /\ Len(widened) >= 2 => (widened[2] = widened[1] <=> decl.value = << >>)

\* C17 witness: "a" was widened to 61 00, and 61 00 to 61 00 00 00.
C17_Witness ==
    /\ decl.value = << 97 >>
    /\ widened = << << 97, 0 >>, << 97, 0, 0, 0 >> >>

(***************************************************************************)
(* Properties of the two add orders.                                       *)
(***************************************************************************)
\* The rule components of a source.
RulesOf(s) == {s.components[i] : i \in {j \in 1..Len(s.components) : s.components[j].type = "Rule"}}

\* The names of the rules a source declares.
DeclaredNames(s) == {r.name : r \in RulesOf(s)}

\* The identifiers and the wildcard prefixes the conditions of a source use.
UsedIdentifiers(s) == {r.condition.name : r \in {q \in RulesOf(s) : q.condition.t = "Identifier"}}

UsedPrefixes(s) == {r.condition.name : r \in {q \in RulesOf(s) : q.condition.t = "RuleSet"}}

\* The modules a source imports.
ImportedNames(s) ==
    {s.components[i].name : i \in {j \in 1..Len(s.components) : s.components[j].type = "Import"}}

\* Neither source references a rule of the other by name.
NoReferenceByName(a, b) ==
    /\ UsedIdentifiers(a) \cap DeclaredNames(b) = {}
    /\ UsedIdentifiers(b) \cap DeclaredNames(a) = {}

\* Source a neither declares a rule of b, nor refers to one by a wildcard
\* prefix, nor uses a module that b imports.
StandsAlone(a, b) ==
    /\ DeclaredNames(a) \cap DeclaredNames(b) = {}
    /\ \A p \in UsedPrefixes(a) : \A n \in DeclaredNames(b) : ~starts_with(n, p)
    /\ UsedIdentifiers(a) \cap ImportedNames(b) = {}

\* The (namespace, rule name) pairs a run reported in its last scan.
Reported(run) ==
    {[namespace |-> run.scan[1].matched_rules[i].namespace,
      name |-> run.scan[1].matched_rules[i].name] : i \in 1..Len(run.scan[1].matched_rules)}

Succeeded(run) == \A i \in 1..Len(run.results) : run.results[i].ok

\* C18 as stated: when neither source references a rule of the other by name,
\* both add orders succeed or fail alike and report, on every input, the same
\* set of (namespace, rule name) pairs.
C18_OrderDoesNotMatter ==
    NoReferenceByName(pair.first, pair.second) =>
        /\ Len(runs.ab.results) = 2 => (Succeeded(runs.ab) <=> Succeeded(runs.ba))
        /\ runs.ab.scan # None => Reported(runs.ab) = Reported(runs.ba)

\* C18, amended: when, besides, neither source declares a rule name of the
\* other, refers to a rule of the other by a wildcard prefix or uses a module
\* the other imports, each source gets the same result in both orders and the
\* two orders report, on every input, the same set of (namespace, rule name)
\* pairs.
C18_OrderOfStandaloneSources ==
    (/\ NoReferenceByName(pair.first, pair.second)
     /\ StandsAlone(pair.first, pair.second)
     /\ StandsAlone(pair.second, pair.first)) =>
        /\ Len(runs.ab.results) = 2 =>
              /\ runs.ab.results[1] = runs.ba.results[2]
              /\ runs.ab.results[2] = runs.ba.results[1]
        /\ runs.ab.scan # None => Reported(runs.ab) = Reported(runs.ba)

\* C18 witness: `rule a { condition: true }` and the source of the rules b and
\* ab, ab referring to b, were added in the two orders; the two compilers hold
\* the rules in different orders and the two scans of "a" reported a, b and ab.
C18_Witness ==
    /\ pair.first = Source(TRUE, << RuleA >>)
    /\ pair.second = Source(TRUE, << RuleBThem, RuleAbRef >>)
    /\ Succeeded(runs.ab) /\ Succeeded(runs.ba)
    /\ runs.ab.scan # None
    /\ runs.ab.scan[1].mem = << 97 >>
    /\ runs.ab.compiler.rules # runs.ba.compiler.rules
    /\ Reported(runs.ab) = Reported(runs.ba)
    /\ {e.name : e \in Reported(runs.ab)} = {Na, Nb, Nab}

(***************************************************************************)
(* Properties of the worker threads.                                       *)
(***************************************************************************)
\* What scan_mem reports for an input when it runs alone on the scanner.
ScanAlone(sc, memory) == ScanRules(sc.rules, memory, 1, << >>, << >>).matched_rules

\* C19: a scan does not modify the scanner, and all its mutable state is local
\* to the call: for every interleaving of the scans of the workers, the clone
\* every worker holds stays equal to the scanner, with its rules and modules,
\* and every scan reports what scan_mem reports when it runs alone.
C19_ScansDoNotInterfere ==
    pool # None =>
        /\ \A w \in 1..Len(pool[1].workers) : pool[1].workers[w].scanner = cli.scanner[1]
        /\ \A d \in done : d.matched_rules = ScanAlone(cli.scanner[1], d.mem)

\* C19 witness: two workers are inside scan_mem at the same time, on different
\* inputs and at different rules, one of them having evaluated rule b to true.
C19_Witness ==
    /\ pool # None
    /\ Len(pool[1].workers) = 2
    /\ pool[1].workers[1].state = "scanning"
    /\ pool[1].workers[2].state = "scanning"
    /\ pool[1].workers[1].local.mem = << 97 >>
    /\ pool[1].workers[2].local.mem = << 65 >>
    /\ pool[1].workers[1].local.previous_results = << TRUE >>
    /\ pool[1].workers[2].local.previous_results = << >>
    /\ Len(cli.scanner[1].rules) = 2

\* C19, a completed case: one worker scanned "a" and then "A" with the same
\* clone, and reported the rules b and ab for the first input only.
C19_SecondScanOfAWorker ==
    /\ pool # None
    /\ Len(pool[1].workers) = 1
    /\ Len(cli.scanner[1].rules) = 2
    /\ \E d \in done : d.mem = << 97 >> /\ Len(d.matched_rules) = 2
    /\ \E d \in done : d.mem = << 65 >> /\ d.matched_rules = << >>

\* C20: with `--threads N`, ThreadPool::new spawns N workers and bounds the
\* channel of the paths to 5 * N entries.
C20_ThreadsGivesNWorkers ==
    (pool # None /\ cli.threads # None) =>
        /\ Len(pool[1].workers) = cli.threads[1]
        /\ pool[1].capacity = 5 * cli.threads[1]

\* What ThreadPool::new does with `--threads N`: one worker and a channel of 5
\* entries for every N >= 1, no worker and a channel without buffer for N = 0.
C20_AtMostOneWorker ==
    (pool # None /\ cli.threads # None) =>
        /\ Len(pool[1].workers) = (IF cli.threads[1] = 0 THEN 0 ELSE 1)
        /\ pool[1].capacity = 5 * Len(pool[1].workers)

(***************************************************************************)
(* Properties of the command line tool.                                    *)
(***************************************************************************)
\* add_rules_file succeeds on the rules file of the command line.
RulesCompile == add_rules(CompilerNew, cli.rules_file, None).result.ok

\* The entries the workers received whose file cannot be read.
FailedEntries ==
    {pool[1].received[i] : i \in {j \in 1..Len(pool[1].received) :
                                     pool[1].received[j].file = Unreadable}}

\* The entries the workers received whose file can be read.
ReadEntries ==
    {pool[1].received[i] : i \in {j \in 1..Len(pool[1].received) :
                                     pool[1].received[j].file # Unreadable}}

\* C21: in a directory scan every file that cannot be read is reported on
\* stderr and does not fail the run: once join has returned, every path sent
\* was received, every readable file was scanned and the exit code is 0. The
\* exit code is not 0 only when the rules file does not compile or the scan
\* cannot be carried out at all: the input is one file that cannot be read, or
\* the pool has no worker to receive a path.
C21_ScanErrorsDoNotFailTheRun ==
    /\ pool # None =>
          \A e \in FailedEntries : Line("Cannot scan file", e.path) \in stderr
    /\ (pool # None /\ pool[1].joined) =>
          /\ exit_code = Some(ExitSuccess)
          /\ Len(pool[1].received) = pool[1].sent
          /\ \A e \in ReadEntries :
                \E d \in done : d.path = e.path /\ d.mem = e.file[1]
    /\ (exit_code # None /\ exit_code[1] # ExitSuccess) =>
          \/ ~RulesCompile
          \/ ~cli.input.is_dir /\ cli.input.file = Unreadable
          \/ cli.input.is_dir /\ pool # None /\ Len(pool[1].workers) = 0

\* C21 witness: the first of the two files of a directory could not be read,
\* which stderr tells; the second one, "a", was scanned after it and matched
\* rules, and the process exited with code 0.
C21_Witness ==
    /\ pool # None
    /\ pool[1].joined
    /\ exit_code = Some(ExitSuccess)
    /\ Len(pool[1].received) = 2
    /\ pool[1].received[1] = [path |-> 1, file |-> Unreadable]
    /\ pool[1].received[2] = [path |-> 2, file |-> Readable(<< 97 >>)]
    /\ Line("Cannot scan file", 1) \in stderr
    /\ \E d \in done : d.path = 2 /\ d.matched_rules # << >>

\* C21, the other exits: a rules file that does not compile, an input file
\* that cannot be read and a pool without worker end the process with a code
\* that is not 0 and a line on stderr.
C21_FailureExits ==
    (exit_code # None /\ exit_code[1] # ExitSuccess) => stderr # {}

(***************************************************************************)
(* Properties of the left validation of a literal hit.                     *)
(***************************************************************************)
\* The variable of the hit the step handled, and the span of its literal.
HitVariable == variables[event'.info.variable_index + 1]

HitSpan == Upscale(event'.hit, event'.info, mem)[1]

\* The step processed a confirmed hit of an Atomized variable that has a
\* left validator.
LeftValidated ==
    /\ event'.kind = "processed"
    /\ HitVariable.matcher_type.kind = "Atomized"
    /\ HitVariable.matcher_type.left_validator # None

\* The matches of a variable, and the ones the step added to them.
MatchesOf(res) == IF res.kind = "Matches" THEN res.v ELSE << >>

AddedMatches ==
    SubSeq(MatchesOf(matches'[event'.info.variable_index + 1]),
           Len(MatchesOf(matches[event'.info.variable_index + 1])) + 1,
           Len(MatchesOf(matches'[event'.info.variable_index + 1])))

\* The offsets from..to of the input at which the validator matches the bytes
\* that end with the literal.
LeftStarts(validator, memory, from, to) ==
    {p \in from..to : MatchFrom(validator, 1, Slice(memory, 0, to), p) # -1}

\* The right validator matches at the start of the literal, or there is none.
RightMatches(var, memory, mat) ==
    \/ var.matcher_type.right_validator = None
    \/ RegexFind(var.matcher_type.right_validator[1],
                 Slice(memory, mat.start, Len(memory))) # None

\* The right extent: the end of the match of the right validator, or the end
\* of the literal.
RightExtent(var, memory, mat) ==
    IF var.matcher_type.right_validator = None THEN mat.end
    ELSE mat.start + RegexFind(var.matcher_type.right_validator[1],
                               Slice(memory, mat.start, Len(memory)))[1].end

\* The added matches are the spans from the given starts, in increasing
\* order, to the given end.
AreSpansFrom(added, starts, end) ==
    /\ Len(added) = Cardinality(starts)
    /\ \A i \in 1..Len(added) : added[i].start \in starts /\ added[i].end = end
    /\ \A i \in 1..(Len(added) - 1) : added[i].start < added[i + 1].start

\* The starts whose span passes the validation of the variable.
ValidStarts(var, memory, starts, end) ==
    {p \in starts : validate_and_update_match(var, memory, Range(p, end)) # None}

\* C22 as stated: a confirmed hit of an Atomized variable with a left
\* validator adds one match per offset >= start_position at which the left
\* validator matches up to the end of the literal, from that offset to the
\* right extent, and no match when the right validator does not match.
C22_OneMatchPerLeftMatch ==
    [][LeftValidated =>
          IF RightMatches(HitVariable, mem, HitSpan)
          THEN AreSpansFrom(AddedMatches,
                            LeftStarts(HitVariable.matcher_type.left_validator[1], mem,
                                       StartPosition(matches[event'.info.variable_index + 1]),
                                       HitSpan.end),
                            RightExtent(HitVariable, mem, HitSpan))
          ELSE AddedMatches = << >>]_vars

\* C22, amended: the hit adds one match per such offset whose span, from the
\* offset to the right extent, passes validate_and_update_match (the fullword
\* test), in increasing order of the offsets, and no match when the right
\* validator does not match.
C22_OneMatchPerValidLeftMatch ==
    [][LeftValidated =>
          IF RightMatches(HitVariable, mem, HitSpan)
          THEN AreSpansFrom(AddedMatches,
                            ValidStarts(HitVariable, mem,
                                LeftStarts(HitVariable.matcher_type.left_validator[1], mem,
                                           StartPosition(matches[event'.info.variable_index + 1]),
                                           HitSpan.end),
                                RightExtent(HitVariable, mem, HitSpan)),
                            RightExtent(HitVariable, mem, HitSpan))
          ELSE AddedMatches = << >>]_vars

\* C22 witness: /A.?aa/ on "AAaa": the hit of the atom "aa" at 2..4 gave the
\* matches 0..4 and 1..4.
C22_Witness ==
    /\ mem = << 65, 65, 97, 97 >>
    /\ Len(variables) = 1
    /\ variables[1].matcher_type.kind = "Atomized"
    /\ variables[1].matcher_type.left_validator # None
    /\ variables[1].matcher_type.right_validator = None
    /\ ~variables[1].flags.FULLWORD
    /\ event.kind = "processed"
    /\ matches[1] = AcMatches(<< Range(0, 4), Range(1, 4) >>)

\* C22, the right validator: /A.?aa-*/ on "Aaa-A" gave the one match 0..4,
\* which ends where the right validator stopped.
C22_RightExtentReached ==
    /\ mem = << 65, 97, 97, 45, 65 >>
    /\ Len(variables) = 1
    /\ variables[1].matcher_type.kind = "Atomized"
    /\ variables[1].matcher_type.left_validator # None
    /\ variables[1].matcher_type.right_validator # None
    /\ event.kind = "processed"
    /\ matches[1] = AcMatches(<< Range(0, 4) >>)

(***************************************************************************)
(* Properties of the hex string parser.                                    *)
(***************************************************************************)
\* The lists of tokens of a hex string: the string itself and the branches of
\* its alternations.
BranchesOf(written) ==
    UNION {{written[i].branches[j] : j \in 1..Len(written[i].branches)} : i \in 1..Len(written)}

\* The jumps written first or last in a list.
JumpsAtBound(list) == {w \in {list[1], list[Len(list)]} : w.t = "Range"}

\* The jumps written first or last in the string or in a branch of it.
WrittenAtBound(written) ==
    JumpsAtBound(written) \cup UNION {JumpsAtBound(b) : b \in BranchesOf(written)}

\* Every jump of the string is a valid jump, allowed where it stands.
JumpsAreValid(written) ==
    /\ \A i \in 1..Len(written) : written[i].t = "Range" => range(written[i]).ok
    /\ \A b \in BranchesOf(written) : \A i \in 1..Len(b) :
          b[i].t = "Range" =>
              range(b[i]).ok /\ validate_jump_in_alternatives(range(b[i]).v).ok

\* The jump is written [1] or [1-1].
IsOneByteJump(w) == range(w) = Parsed(Jump(1, Some(1)))

\* C23 as stated: a hex string with a jump written first or last in its list
\* of tokens, or in a branch of an alternation, is rejected, with JumpAtBound
\* when its jumps are valid, whatever the form of the jump.
C23_JumpAtBoundRejected ==
    (hex.result # None /\ WrittenAtBound(hex.source) # {}) =>
        /\ ~hex.result[1].ok
        /\ JumpsAreValid(hex.source) => hex.result[1].kind = "JumpAtBound"

\* What the parser does: the string is rejected when a jump other than [1]
\* and [1-1] is written first or last.
C23_WiderJumpAtBoundRejected ==
    (hex.result # None /\ \E w \in WrittenAtBound(hex.source) : ~IsOneByteJump(w)) =>
        /\ ~hex.result[1].ok
        /\ JumpsAreValid(hex.source) => hex.result[1].kind = "JumpAtBound"

\* C23, the accepted case: `{ [1] AB }` parses to the tokens ?? and AB.
C23_OneByteJumpAccepted ==
    /\ hex.source = << WrittenJump(Some(1), None, FALSE), WrittenByte >>
    /\ hex.result = Some(Parsed(<< HexMaskedByte, HexByte >>))

\* C23, a jump between two tokens: `{ AB [-] AB }` parses to a jump between
\* two bytes.
C23_JumpBetweenAccepted ==
    /\ hex.source = << WrittenByte, WrittenJump(None, None, TRUE), WrittenByte >>
    /\ hex.result = Some(Parsed(<< HexByte, HexJump(Jump(0, None)), HexByte >>))

(***************************************************************************)
(* C24: the evaluation of a module expression gives the value the          *)
(* operations reach, or Undefined.                                         *)
(***************************************************************************)
\* The values one operation reaches from a value: none when the operation
\* does not apply to it.
ValuesReached(id, operation) ==
    CASE operation.op = "Subfield" ->
             {ModuleValues[id].fields[name] :
                  name \in {n \in DOMAIN ModuleValues[id].fields :
                                ModuleValues[id].t = "Object" /\ n = operation.name}}
      [] operation.op = "Subscript" ->
             {ModuleValues[id].items[i] :
                  i \in {j \in 1..Len(ModuleValues[id].items) :
                             /\ ModuleValues[id].t = "Array"
                             /\ operation.sub.ok
                             /\ operation.sub.t = "Integer"
                             /\ operation.sub.n = j - 1}}
                 \cup {ModuleValues[id].entries[key] :
                           key \in {k \in DOMAIN ModuleValues[id].entries :
                                        /\ ModuleValues[id].t = "Dictionary"
                                        /\ operation.sub.ok
                                        /\ operation.sub.t = "Bytes"
                                        /\ operation.sub.k = k}}
      [] operation.op = "FunctionCall" ->
             {r \in DOMAIN ModuleValues :
                  /\ ModuleValues[id].t = "Function"
                  /\ \A i \in 1..Len(operation.args) : operation.args[i].ok
                  /\ ModuleValues[id].returns = Some(r)}

\* The values the expression starts from.
ValuesStarted(expr) ==
    CASE expr.kind = "Module" ->
             {module_values[i] : i \in {j \in 1..Len(module_values) : j = expr.index + 1}}
      [] expr.kind = "BoundedStack" ->
             {bounded_identifiers_stack[i] :
                  i \in {j \in 1..Len(bounded_identifiers_stack) : j = expr.index + 1}}
      [] expr.kind = "Function" -> ValuesReached(expr.fun, FunctionCall(expr.arguments))

\* The values reached from a set of values by the operations, in order.
RECURSIVE ValuesWalked(_, _)
ValuesWalked(from, operations) ==
    IF operations = << >> THEN from
    ELSE ValuesWalked(UNION {ValuesReached(id, Head(operations)) : id \in from},
                      Tail(operations))

\* C24: the evaluation of a chain of module operations gives Undefined when
\* an operation does not apply (a subfield on a non-object or a missing key,
\* a subscript on a value that is neither array nor dictionary, a negative or
\* out-of-range index, a missing dictionary key, a call on a non-function, a
\* function returning None, an index out of range), and otherwise the value
\* reached by applying the operations in order, those after a function call
\* to the function's result.
C24_ChainGivesReachedValueOrUndefined ==
    module_expr.result # None =>
        LET reached == ValuesWalked(ValuesStarted(module_expr.expr[1]),
                                    module_expr.expr[1].operations)
        IN  IF reached = {} THEN module_expr.result[1] = Poison("Undefined")
            ELSE reached = {module_expr.result[1].v} /\ module_expr.result[1].ok

\* A chain with operations after a function call, evaluated to a value.
C24_Witness ==
    /\ module_expr.result # None
    /\ module_expr.result[1].ok
    /\ \E i \in 1..Len(module_expr.expr[1].operations) :
           /\ module_expr.expr[1].operations[i].op = "FunctionCall"
           /\ i < Len(module_expr.expr[1].operations)

\* A chain that is Undefined for a negative index after two operations that
\* applied.
C24_NegativeIndexUndefined ==
    /\ module_expr.result = Some(Poison("Undefined"))
    /\ Len(module_expr.expr[1].operations) = 3
    /\ module_expr.expr[1].operations[3] = Subscript(ExprInteger(-1))
    /\ ValuesWalked(ValuesStarted(module_expr.expr[1]),
                    SubSeq(module_expr.expr[1].operations, 1, 2)) = {"arr"}

(***************************************************************************)
(* C25: the paths of a directory scan are each received and scanned once,  *)
(* and the run ends.                                                       *)
(***************************************************************************)
PathsOf(entries) == {entries[i].path : i \in 1..Len(entries)}

\* The workers that are scanning the path.
ScanningPath(path) ==
    {w \in 1..Len(pool[1].workers) :
         pool[1].workers[w].state = "scanning" /\ pool[1].workers[w].path = path}

\* No path is lost or received twice: the paths sent are those in the channel
\* and those received, each of them once; a received file that can be read is
\* with one worker or its scan is printed, and never both.
PathsReceivedOnce ==
    (pool # None /\ Len(pool[1].workers) > 0) =>
        /\ PathsOf(pool[1].queue) \cup PathsOf(pool[1].received) = 1..pool[1].sent
        /\ PathsOf(pool[1].queue) \cap PathsOf(pool[1].received) = {}
        /\ Cardinality(PathsOf(pool[1].received)) = Len(pool[1].received)
        /\ Cardinality(PathsOf(pool[1].queue)) = Len(pool[1].queue)
        /\ \A i \in 1..Len(pool[1].received) :
              pool[1].received[i].file # Unreadable =>
                  Cardinality(ScanningPath(pool[1].received[i].path))
                      + Cardinality({d \in done : d.path = pool[1].received[i].path}) = 1
        /\ \A d \in done : d.path \in PathsOf(pool[1].received)
        /\ pool[1].joined =>
              /\ PathsOf(pool[1].received) = 1..pool[1].sent
              /\ \A p \in 1..pool[1].sent : ScanningPath(p) = {}

SenderDropped == pool # None /\ Len(pool[1].workers) > 0 /\ ~pool[1].sender

Joined == pool # None /\ pool[1].joined

\* C25: in a directory scan with at least one worker, every path sent on the
\* channel is received by exactly one worker and scanned exactly once, and
\* once the sender is dropped the workers drain the channel, leave their
\* loops and join returns.
C25_PathsScannedOnceAndRunEnds == ([]PathsReceivedOnce) /\ (SenderDropped ~> Joined)

\* The queue held two paths when the sender was dropped, two workers took
\* one each, and join returned.
C25_Witness ==
    /\ pool # None
    /\ pool[1].joined
    /\ Len(pool[1].workers) = 2
    /\ pool[1].sent = MaxPaths
    /\ Cardinality({d.path : d \in done}) = 2

\* Paths wait in the channel after the sender is dropped.
C25_DroppedWithPathsQueued ==
    /\ pool # None
    /\ ~pool[1].sender
    /\ Len(pool[1].workers) > 0
    /\ Len(pool[1].queue) = MaxPaths

(***************************************************************************)
(* C26: previous_results follows the rules of the scanner.                 *)
(***************************************************************************)
\* The namespaces of the compiler.
NamespacesOf(c) == {c.default_namespace} \cup {c.namespaces[n] : n \in DOMAIN c.namespaces}

\* The positions of the rules that scan_mem reports, in increasing order.
RECURSIVE ReportedFrom(_, _, _)
ReportedFrom(scanner_rules, results, i) ==
    IF i > Len(scanner_rules) THEN << >>
    ELSE (IF results[i] /\ ~scanner_rules[i].is_private THEN << i >> ELSE << >>)
         \o ReportedFrom(scanner_rules, results, i + 1)

\* C26: scan_mem evaluates the rules in the order of Compiler::rules, which
\* is the order the rules were added in; previous_results has one entry per
\* rule, matching or not, private or not, the entry of a rule being the value
\* of its condition given the entries before it; the index a name was
\* registered with is the position of that rule, so a reference by index
\* reads the result of that rule; matched_rules lists the matching rules that
\* are not private in that order.
C26_PreviousResultsFollowRules ==
    scan # None =>
        /\ Len(scan[1].previous_results) = Len(scanner[1].rules)
        /\ \A i \in 1..Len(scanner[1].rules) :
              /\ scan[1].previous_results[i]
                     = evaluate_rule(scanner[1].rules[i], scan[1].mem,
                                     SubSeq(scan[1].previous_results, 1, i - 1)).res
              /\ scanner[1].rules[i].condition.t = "Rule" =>
                     \A index \in scanner[1].rules[i].condition.indexes :
                         /\ index + 1 < i
                         /\ scan[1].previous_results[i] = scan[1].previous_results[index + 1]
        /\ \A ns \in NamespacesOf(compiler) :
              \A name \in DOMAIN ns.rules_indexes :
                  ns.rules_indexes[name] # None =>
                      /\ ns.rules_indexes[name][1] < Len(scanner[1].rules)
                      /\ scanner[1].rules[ns.rules_indexes[name][1] + 1].name = name
                      /\ scanner[1].rules[ns.rules_indexes[name][1] + 1].namespace = ns.name
        /\ LET reported == ReportedFrom(scanner[1].rules, scan[1].previous_results, 1)
           IN  /\ Len(scan[1].matched_rules) = Len(reported)
               /\ \A k \in 1..Len(reported) :
                     /\ scan[1].matched_rules[k].name = scanner[1].rules[reported[k]].name
                     /\ scan[1].matched_rules[k].namespace
                            = scanner[1].rules[reported[k]].namespace

\* Compiler::rules only grows at its end, so the position of a rule is its
\* rank among the rules added.
C26_RulesAppended ==
    [][/\ Len(compiler'.rules) >= Len(compiler.rules)
       /\ SubSeq(compiler'.rules, 1, Len(compiler.rules)) = compiler.rules]_vars

\* A scan of three rules: one that does not match, a private one, and a rule
\* that reads the result of the first by its index.
C26_Witness ==
    /\ scan # None
    /\ Len(scanner[1].rules) = 3
    /\ \E i, j, k \in 1..3 :
          /\ ~scan[1].previous_results[i]
          /\ scanner[1].rules[j].is_private
          /\ scanner[1].rules[k].condition.t = "Rule"
          /\ i - 1 \in scanner[1].rules[k].condition.indexes

(***************************************************************************)
(* C27: the indexes of the imported modules.                               *)
(***************************************************************************)
\* Every module occurs at most once in imported_modules; the index a
\* namespace holds for a module is in range and designates that module, and
\* is the one the available module keeps, hence the same in every namespace.
ImportedModulesIndexed ==
    /\ \A i, j \in 1..Len(compiler.imported_modules) :
          compiler.imported_modules[i] = compiler.imported_modules[j] => i = j
    /\ \A ns \in NamespacesOf(compiler) :
          \A m \in DOMAIN ns.imported_modules :
              /\ ns.imported_modules[m].module_index < Len(compiler.imported_modules)
              /\ compiler.imported_modules[ns.imported_modules[m].module_index + 1] = m
              /\ compiler.available_modules[m].location
                     = ImportedIndex(ns.imported_modules[m].module_index)
    /\ \A ns1, ns2 \in NamespacesOf(compiler) :
          \A m \in DOMAIN ns1.imported_modules \cap DOMAIN ns2.imported_modules :
              ns1.imported_modules[m].module_index = ns2.imported_modules[m].module_index

\* The index a module has in a namespace, None when it is not imported there.
ModuleIndexIn(c, namespace, m) ==
    IF namespace # None /\ namespace[1] \notin DOMAIN c.namespaces THEN None
    ELSE IF m \notin DOMAIN GetNamespace(c, namespace).imported_modules THEN None
    ELSE Some(GetNamespace(c, namespace).imported_modules[m].module_index)

\* An index once assigned stays: in the namespace, and in imported_modules.
ImportedIndexesKept ==
    /\ \A namespace \in {None} \cup {Some(n) : n \in NamespaceNames} :
          \A m \in DOMAIN compiler.available_modules :
              ModuleIndexIn(compiler, namespace, m) # None =>
                  ModuleIndexIn(compiler', namespace, m) = ModuleIndexIn(compiler, namespace, m)
    /\ Len(compiler'.imported_modules) >= Len(compiler.imported_modules)
    /\ SubSeq(compiler'.imported_modules, 1, Len(compiler.imported_modules))
           = compiler.imported_modules

\* C27: after any sequence of add_module and add_rules calls over any
\* namespaces, each module occurs at most once in imported_modules, every
\* namespace that imported a module holds the same index for it, the index is
\* below len(imported_modules) and designates the module, and an index once
\* assigned never changes when further modules are imported.
C27_ModuleIndexesAreStable == ([]ImportedModulesIndexed) /\ [][ImportedIndexesKept]_vars

\* Two namespaces imported the same module, and a second module was imported
\* after it.
C27_Witness ==
    /\ Len(compiler.imported_modules) = 2
    /\ "ns1" \in DOMAIN compiler.namespaces
    /\ \E m \in DOMAIN compiler.default_namespace.imported_modules :
          /\ m \in DOMAIN compiler.namespaces["ns1"].imported_modules
          /\ compiler.default_namespace.imported_modules[m].module_index = 0

(***************************************************************************)
(* C28: a source that fails is not rolled back.                            *)
(***************************************************************************)
\* The last call added a source that parsed and failed on a component.
FailedAdd ==
    /\ call.op \in {"add_rules_str", "add_rules_str_in_namespace"}
    /\ ~call.result.ok
    /\ call.source.parses

\* The rule components before the failing one.
RulesBeforeFailure ==
    {j \in 1..(call.result.at - 1) : call.source.components[j].type = "Rule"}

FirstRuleBeforeFailure ==
    CHOOSE j \in RulesBeforeFailure : \A i \in RulesBeforeFailure : j <= i

\* The imports and the rules before the failing component are registered in
\* the compiler and in the namespace.
PrecedingComponentsKept ==
    FailedAdd =>
        \A j \in 1..(call.result.at - 1) :
            IF call.source.components[j].type = "Rule"
            THEN call.source.components[j].name \in RegisteredNames(compiler, call.namespace)
            ELSE /\ call.source.components[j].name
                        \in DOMAIN GetNamespace(compiler, call.namespace).imported_modules
                 /\ \E i \in 1..Len(compiler.imported_modules) :
                        compiler.imported_modules[i] = call.source.components[j].name

\* The sources that start as the failed one does, up to its first rule: the
\* failed source itself and its corrections.
SourcesStartingAlike ==
    {s \in Sources :
         /\ s.parses
         /\ Len(s.components) >= FirstRuleBeforeFailure
         /\ SubSeq(s.components, 1, FirstRuleBeforeFailure)
                = SubSeq(call.source.components, 1, FirstRuleBeforeFailure)}

\* Adding the source again fails with DuplicatedRuleName on its first rule.
ReAddFailsAsDuplicate ==
    (FailedAdd /\ RulesBeforeFailure # {}) =>
        \A s \in SourcesStartingAlike :
            add_rules(compiler, s, call.namespace).result
                = Err("DuplicatedRuleName", FirstRuleBeforeFailure)

\* Adding the source again fails on its first rule, with DuplicatedRuleName
\* unless the name now starts with a wildcard prefix of the namespace.
ReAddFailsOnFirstRule ==
    (FailedAdd /\ RulesBeforeFailure # {}) =>
        \A s \in SourcesStartingAlike :
            /\ add_rules(compiler, s, call.namespace).result.at = FirstRuleBeforeFailure
            /\ add_rules(compiler, s, call.namespace).result.kind
                   = IF IsForbidden(GetNamespace(compiler, call.namespace),
                                    call.source.components[FirstRuleBeforeFailure].name)
                     THEN "MatchOnWildcardRuleSet"
                     ELSE "DuplicatedRuleName"

\* A source that does not parse leaves the compiler as it was.
ParseFailureChangesNothing ==
    (AddStep /\ ~call'.source.parses) =>
        /\ compiler' = compiler
        /\ call'.result = Err("ParseError", 0)

\* C28 as stated: when add_file fails on its k-th component the imports and
\* rules before k stay registered, so adding the same source again, corrected
\* or not, fails with DuplicatedRuleName on its first registered rule; a source
\* that fails to parse changes nothing.
C28_ReAddFailsWithDuplicatedRuleName ==
    /\ []PrecedingComponentsKept
    /\ []ReAddFailsAsDuplicate
    /\ [][ParseFailureChangesNothing]_vars

\* C28: when add_file fails on its k-th component the imports and rules
\* before k stay registered, so adding the same source again, corrected or
\* not, fails on its first registered rule: with MatchOnWildcardRuleSet when
\* the name starts with a wildcard prefix the namespace now holds, and with
\* DuplicatedRuleName otherwise; a source that fails to parse changes nothing.
C28_ReAddFailsOnFirstRegisteredRule ==
    /\ []PrecedingComponentsKept
    /\ []ReAddFailsOnFirstRule
    /\ [][ParseFailureChangesNothing]_vars

\* A source failed on its third component after a rule and a rule set that
\* forbids the name of that rule.
C28_Witness ==
    /\ FailedAdd
    /\ call.result.at = 3
    /\ Cardinality(RulesBeforeFailure) = 2
    /\ IsForbidden(GetNamespace(compiler, call.namespace), call.source.components[1].name)

\* A source failed on its second component after an import.
C28_ImportKept ==
    /\ FailedAdd
    /\ call.result.at = 2
    /\ call.source.components[1].type = "Import"

(***************************************************************************)
(* C29: the cursor of a variable stays well formed.                        *)
(***************************************************************************)
\* The stored matches are strictly increasing in start.
MatchesIncreasing ==
    \A i, j \in 1..Len(ev.matches) : i < j => ev.matches[i].start < ev.matches[j].start

\* The offset after the last stored match: 0 before any match.
AfterLastMatch ==
    IF ev.matches = << >> THEN 0 ELSE ev.matches[Len(ev.matches)].start + 1

\* A candidate of the regex starts at or after the offset of the search, so
\* a rejected candidate moves the search at least one byte on.
CandidatesFromOffset ==
    \A offset \in 0..(Len(ev_mem) - 1) :
        RegexFindAt(ev.var.matcher_type.raw[1], ev_mem, offset) # None =>
            RegexFindAt(ev.var.matcher_type.raw[1], ev_mem, offset)[1].start >= offset

\* next_offset is None, or the offset after the last match and inside the
\* input.
NextOffsetInsideInput ==
    ev.next_offset # None =>
        /\ ev.next_offset[1] = AfterLastMatch
        /\ ev.next_offset[1] < Len(ev_mem)

\* The same, but for the new cursor on the empty input, which holds Some(0).
NextOffsetInsideInputOrNew ==
    ev.next_offset # None =>
        /\ ev.next_offset[1] = AfterLastMatch
        /\ \/ ev.next_offset[1] < Len(ev_mem)
           \/ ev_mem = << >> /\ ev.matches = << >>

\* A query only adds matches at the end; when it adds one next_offset grows
\* or becomes None, and nothing is added once next_offset is None.
CursorAdvances ==
    /\ IsPrefixSeq(ev.matches, ev'.matches)
    /\ (ev'.matches # ev.matches /\ ev'.next_offset # None) =>
           /\ ev.next_offset # None
           /\ ev'.next_offset[1] > ev.next_offset[1]
    /\ ev.next_offset = None => ev' = ev

\* C29 as stated: the stored matches are strictly increasing in start,
\* next_offset is None or last_match.start + 1 (0 before any match) and below
\* len(input), a successful get_next_match increases next_offset or sets it to
\* None, a rejected candidate advances the search, and once next_offset is
\* None no match is added.
C29_CursorWellFormed ==
    /\ [](MatchesIncreasing /\ CandidatesFromOffset /\ NextOffsetInsideInput)
    /\ [][CursorAdvances]_vars

\* C29: the same, where next_offset is below len(input) once the input is not
\* empty; the new cursor holds Some(0) on the empty input too, until a query
\* searches.
C29_CursorWellFormedOnceSearched ==
    /\ [](MatchesIncreasing /\ CandidatesFromOffset /\ NextOffsetInsideInputOrNew)
    /\ [][CursorAdvances]_vars

\* The search rejected a candidate and the cursor holds the match found after
\* it.
C29_Witness ==
    /\ ev.matches # << >>
    /\ \E offset \in 0..(ev.matches[1].start - 1) :
          /\ RegexFindAt(ev.var.matcher_type.raw[1], ev_mem, offset) # None
          /\ RegexFindAt(ev.var.matcher_type.raw[1], ev_mem, offset)[1].start
                 < ev.matches[1].start

\* The cursor holds two matches and the input is not finished.
C29_TwoMatchesAndMore ==
    /\ Len(ev.matches) = 2
    /\ ev.next_offset # None

\* The new cursor on the empty input, after a query that did not search.
C29_NewCursorOnEmptyInput ==
    /\ ev_mem = << >>
    /\ ev.next_offset = Some(0)
    /\ ev_call.op = "find_at"

(***************************************************************************)
(* C30: the term that closes the sum of the serial correlation.            *)
(***************************************************************************)
\* a0*a1 + a1*a2 + .. + a(N-1)*aN
SumOfNeighbours(bytes) == SerialSums(bytes, 1, 0, 0, 0, 0).scct1

\* C30: for every non-empty input compute_serial_correlation closes the sum
\* scct1 with the exact product of the first and the last byte, without 8-bit
\* overflow, truncation or failure.
C30_ClosingTermIsExact ==
    (serial.result # None /\ serial.bytes # << >>) =>
        /\ ~serial.result[1].panicked
        /\ serial.result[1].scct1
               = SumOfNeighbours(serial.bytes)
                     + serial.bytes[1] * serial.bytes[Len(serial.bytes)]

\* The term is exact when the product of the first and the last byte is below
\* 256.
C30_ClosingTermIsExactBelow256 ==
    (/\ serial.result # None
     /\ serial.bytes # << >>
     /\ serial.bytes[1] * serial.bytes[Len(serial.bytes)] < 256) =>
        /\ ~serial.result[1].panicked
        /\ serial.result[1].scct1
               = SumOfNeighbours(serial.bytes)
                     + serial.bytes[1] * serial.bytes[Len(serial.bytes)]

\* The call returned for an input whose first and last bytes have a product
\* of 256: the term added is 0.
C30_ProductWrapped ==
    /\ serial.result # None
    /\ ~serial.result[1].panicked
    /\ Len(serial.bytes) >= 2
    /\ serial.bytes[1] * serial.bytes[Len(serial.bytes)] = 256
    /\ serial.result[1].scct1 = SumOfNeighbours(serial.bytes)

\* The call panicked.
C30_ProductPanicked == serial.result # None /\ serial.result[1].panicked

====
